---- MODULE Spec2Model ----
(***************************************************************************)
(* EasyKeyNav content script (content.js): keyboard dispatch, cyclic       *)
(* heading / landmark traversal, temporary focusability, skip links and    *)
(* the help dialog, over a small host page.                                *)
(*                                                                         *)
(* Every function of the script is an operator from a state record to a   *)
(* state record (the script is single threaded: a handler runs to its end).*)
(* The actions apply one handler each to the current state.                *)
(***************************************************************************)
EXTENDS Integers, Sequences, FiniteSets, TLC

(***************************************************************************)
(* Bounds of the model.                                                    *)
(***************************************************************************)
\* page mutations (hide / show / remove) the host page performs in one run
MaxPageChanges == 2
\* one-shot blur listeners that may be pending on one element
MaxBlurListeners == 2
\* focus-settle timers of already closed dialogs that may still be pending
MaxStaleTimeouts == 1
\* clicks on the popup's toggle button in one run
MaxClicks == 2
\* messages the background worker receives in one run
MaxRequests == 2

(***************************************************************************)
(* The document: the host page, the injected skip links, the dialog.       *)
(***************************************************************************)
Null == "null"
\* a node that was removed from the document and is never inserted again
Detached == "detached"
Body == "body"

SkipElements == {"skip_links", "skip_a"}
DialogHeadings == <<"dlg_title", "dlg_h2_heading", "dlg_h2_landmark", "dlg_h2_tab", "dlg_h2_help">>
DialogElements == {"dlg", "dlg_close", "dlg_debug"} \cup {DialogHeadings[i] : i \in 1..Len(DialogHeadings)}
PageHeadings == {"h_title", "h_a", "h_b"}
PageElements == PageHeadings \cup {"nav", "main", "input", "editor", "listbox"}
\* a richer host page: nested sectioning elements, a heading inside an
\* element with role heading, a heading inside a container that may be hidden
TreeElements ==
  {"header", "article", "art_header", "art_nav", "art_footer", "sec", "box",
   "h_both", "aside", "form", "wrap", "h_in", "footer"}

\* document order (depth first): the skip links are the first child of
\* body, the dialog is appended to body
DocOrder ==
  <<"skip_links", "skip_a",
    "nav", "h_title", "main", "h_a", "input", "editor", "listbox", "h_b",
    "header", "article", "art_header", "art_nav", "art_footer", "sec", "box",
    "h_both", "aside", "form", "wrap", "h_in", "footer",
    "dlg", "dlg_close", "dlg_title", "dlg_h2_heading", "dlg_h2_landmark",
    "dlg_h2_tab", "dlg_h2_help", "dlg_debug">>

Elements == {DocOrder[i] : i \in 1..Len(DocOrder)}

\* position in document order, body first
Position ==
  [e \in Elements \cup {Body} |->
     IF e = Body THEN 0 ELSE CHOOSE i \in 1..Len(DocOrder) : DocOrder[i] = e]

Pos(e) == Position[e]

\* parentNode
Parent(e) ==
  CASE e = "skip_a" -> "skip_links"
    [] e \in DialogElements \ {"dlg"} -> "dlg"
    [] e \in {"art_header", "art_nav", "art_footer"} -> "article"
    [] e = "box" -> "sec"
    [] e = "h_both" -> "box"
    [] e = "h_in" -> "wrap"
    [] OTHER -> Body

\* the element and its ancestors below body
RECURSIVE AncestorChain(_)
AncestorChain(e) == IF e = Body THEN {} ELSE {e} \cup AncestorChain(Parent(e))

Ancestry == [e \in Elements \cup {Body} |-> AncestorChain(e)]

SelfAndAncestors(e) == Ancestry[e]

TagName(e) ==
  CASE e = Body -> "BODY"
    [] e \in {"h_title", "dlg_title"} -> "H1"
    [] e \in {"h_a", "h_b", "h_in", "dlg_h2_heading", "dlg_h2_landmark", "dlg_h2_tab", "dlg_h2_help"} -> "H2"
    [] e = "h_both" -> "H3"
    [] e \in {"nav", "art_nav"} -> "NAV"
    [] e \in {"header", "art_header"} -> "HEADER"
    [] e \in {"footer", "art_footer"} -> "FOOTER"
    [] e = "article" -> "ARTICLE"
    [] e = "sec" -> "SECTION"
    [] e = "aside" -> "ASIDE"
    [] e = "form" -> "FORM"
    [] e = "main" -> "MAIN"
    [] e = "input" -> "INPUT"
    [] e = "skip_a" -> "A"
    [] e \in {"dlg_close", "dlg_debug"} -> "BUTTON"
    [] OTHER -> "DIV"

\* the role attribute (Null when absent)
RoleAttr(e) ==
  CASE e = "skip_links" -> "navigation"
    [] e = "dlg" -> "dialog"
    [] e = "dlg_debug" -> "switch"
    [] e = "listbox" -> "listbox"
    [] e = "art_footer" -> "contentinfo"
    [] e \in {"box", "h_both"} -> "heading"
    [] OTHER -> Null

\* carries aria-label or aria-labelledby
IsLabelled(e) == e \in {"sec", "form"}

HeadingTags == {"H1", "H2", "H3", "H4", "H5", "H6"}

\* the elements a tag selector and a [role="..."] selector match
WithTag ==
  [tag \in {"HEADER", "NAV", "MAIN", "FOOTER", "ASIDE", "SECTION", "FORM", "H1"} |->
     {e \in Elements : TagName(e) = tag}]

WithRole ==
  [role \in {"banner", "navigation", "main", "complementary", "contentinfo",
             "search", "form", "region", "heading"} |->
     {e \in Elements : RoleAttr(e) = role}]

WithHeadingTag == {e \in Elements : TagName(e) \in HeadingTags}

IsContentEditable(e) == e = "editor"

\* host-page markup: the tabindex attributes the page itself sets
PageTabIndex(e) == IF e \in {"listbox", "h_both"} THEN "0" ELSE "none"

\* focusable without any tabindex attribute
NativelyFocusable(e) == TagName(e) \in {"A", "BUTTON", "INPUT"} \/ IsContentEditable(e)

\* page elements the host page hides, shows or removes in this model
Hideable == PageHeadings
Removable == {"h_b", "input"}
Addable == PageHeadings

(***************************************************************************)
(* State of the content script and of the document.                        *)
(***************************************************************************)
VARIABLES
  isMac,                \* navigator platform
  startupPending,       \* the chrome.storage.sync.get callback has not run
  isEnabled,
  keyListener,          \* handleKeyPress is registered on document (capture)
  skipLinksContainer,   \* TRUE when the variable holds a node
  currentHeadingIndex,
  currentLandmarkIndex,
  helpDialogOpen,
  helpDialogElement,    \* TRUE when the variable holds a node
  lastFocusedElement,
  activeElement,        \* document.activeElement
  attached,             \* the elements in the document
  hidden,               \* elements styled visibility: hidden
  displayNone,          \* elements styled display: none
  ariaHidden,           \* elements carrying aria-hidden="true"
  tabindex,             \* tabindex attribute of each element, "none" if absent
  blurListeners,        \* pending one-shot blur listeners: the value each restores
  focusCheckTimeout,    \* the open dialog's focus-settle timer is pending
  staleTimeouts,        \* pending focus-settle timers of closed dialogs
  threw,                \* the last handler ended with an uncaught TypeError
  pageChanges,          \* page mutations so far
  DEBUG_FOCUS,
  storageDebugMode,     \* the stored 'debugMode', written by the dialog's debug switch
  \* the rest of the extension: chrome.storage.sync, the popup, the messages
  storageEnabled,       \* the stored 'enabled': "true", "false", "undefined" (absent)
  popupClicks,          \* the click handlers of the popup's button, in click order
  toggleMessages,       \* toggle messages sent to the tab, not yet delivered
  startupRead,          \* what the script's own storage read returned, "pending" before
  processedClicks,      \* the clicks whose message the script has processed, in order
  lastWrite,            \* the click that wrote storage most recently, 0 if none
  ariaPressed,          \* aria-pressed of the popup's button, "unset" before it is set
  loadPending,          \* the popup's storage.get on load has not called back
  requests              \* the messages the background worker has received, in order

contentVars ==
  <<isMac, startupPending, isEnabled, keyListener, skipLinksContainer,
    currentHeadingIndex, currentLandmarkIndex, helpDialogOpen,
    helpDialogElement, lastFocusedElement, activeElement, attached,
    hidden, displayNone, ariaHidden, tabindex, blurListeners,
    focusCheckTimeout, staleTimeouts, threw, pageChanges,
    DEBUG_FOCUS, storageDebugMode>>

extensionVars ==
  <<storageEnabled, popupClicks, toggleMessages, startupRead, processedClicks, lastWrite,
    ariaPressed, loadPending, requests>>

vars == <<contentVars, extensionVars>>

\* The current state as a record. removalFiresFocusout is not state of the
\* program: it is the browser's behaviour when a subtree holding the focus
\* is removed (some builds dispatch blur/focusout, some do not).
State(removalFiresFocusout) ==
  [isMac |-> isMac, startupPending |-> startupPending, isEnabled |-> isEnabled,
   keyListener |-> keyListener, skipLinksContainer |-> skipLinksContainer,
   currentHeadingIndex |-> currentHeadingIndex,
   currentLandmarkIndex |-> currentLandmarkIndex,
   helpDialogOpen |-> helpDialogOpen, helpDialogElement |-> helpDialogElement,
   lastFocusedElement |-> lastFocusedElement, activeElement |-> activeElement,
   attached |-> attached, hidden |-> hidden, displayNone |-> displayNone,
   ariaHidden |-> ariaHidden, tabindex |-> tabindex,
   blurListeners |-> blurListeners, focusCheckTimeout |-> focusCheckTimeout,
   staleTimeouts |-> staleTimeouts, threw |-> threw, pageChanges |-> pageChanges,
   DEBUG_FOCUS |-> DEBUG_FOCUS, storageDebugMode |-> storageDebugMode,
   removalFiresFocusout |-> removalFiresFocusout,
   defaultPrevented |-> FALSE]

WithinBounds(s) ==
  /\ s.staleTimeouts <= MaxStaleTimeouts
  /\ s.pageChanges <= MaxPageChanges
  /\ \A e \in Elements : Len(s.blurListeners[e]) <= MaxBlurListeners

\* the content script and its document take the state s
SetContentState(s) ==
  /\ WithinBounds(s)
  /\ isMac' = s.isMac
  /\ startupPending' = s.startupPending
  /\ isEnabled' = s.isEnabled
  /\ keyListener' = s.keyListener
  /\ skipLinksContainer' = s.skipLinksContainer
  /\ currentHeadingIndex' = s.currentHeadingIndex
  /\ currentLandmarkIndex' = s.currentLandmarkIndex
  /\ helpDialogOpen' = s.helpDialogOpen
  /\ helpDialogElement' = s.helpDialogElement
  /\ lastFocusedElement' = s.lastFocusedElement
  /\ activeElement' = s.activeElement
  /\ attached' = s.attached
  /\ hidden' = s.hidden
  /\ displayNone' = s.displayNone
  /\ ariaHidden' = s.ariaHidden
  /\ tabindex' = s.tabindex
  /\ blurListeners' = s.blurListeners
  /\ focusCheckTimeout' = s.focusCheckTimeout
  /\ staleTimeouts' = s.staleTimeouts
  /\ threw' = s.threw
  /\ pageChanges' = s.pageChanges
  /\ DEBUG_FOCUS' = s.DEBUG_FOCUS
  /\ storageDebugMode' = s.storageDebugMode

\* a handler of the content script has run: nothing else of the extension moves
SetState(s) == SetContentState(s) /\ UNCHANGED extensionVars

(***************************************************************************)
(* DOM primitives.                                                         *)
(***************************************************************************)
\* keeps the first occurrence of every element (filter with indexOf)
RECURSIVE Dedupe(_)
Dedupe(seq) ==
  IF seq = <<>> THEN <<>>
  ELSE LET init == Dedupe(SubSeq(seq, 1, Len(seq) - 1))
           x == seq[Len(seq)]
       IN IF \E i \in 1..Len(init) : init[i] = x THEN init ELSE Append(init, x)

\* a.compareDocumentPosition(b): the set of flags of the result
CompareDocumentPosition(a, b) ==
  IF a = b THEN {}
  ELSE IF a \in SelfAndAncestors(b) THEN {"CONTAINED_BY", "FOLLOWING"}
  ELSE IF b \in SelfAndAncestors(a) THEN {"CONTAINS", "PRECEDING"}
  ELSE IF Pos(a) < Pos(b) THEN {"FOLLOWING"}
  ELSE {"PRECEDING"}

\* the comparator handed to sort
ByDocumentPosition(a, b) ==
  LET position == CompareDocumentPosition(a, b)
  IN IF "FOLLOWING" \in position THEN -1
     ELSE IF "PRECEDING" \in position THEN 1
     ELSE 0

\* Array.prototype.sort with that comparator
RECURSIVE InsertByPosition(_, _)
InsertByPosition(sorted, x) ==
  IF sorted = <<>> THEN <<x>>
  ELSE IF ByDocumentPosition(x, sorted[1]) < 0 THEN <<x>> \o sorted
  ELSE <<sorted[1]>> \o InsertByPosition(Tail(sorted), x)

RECURSIVE SortByDocumentPosition(_)
SortByDocumentPosition(seq) ==
  IF seq = <<>> THEN <<>>
  ELSE InsertByPosition(SortByDocumentPosition(Tail(seq)), seq[1])

\* getComputedStyle(e): display is the element's own, visibility is
\* inherited from the ancestors
ComputedDisplay(s, e) == IF e \in s.displayNone THEN "none" ELSE "block"
ComputedVisibility(s, e) ==
  IF SelfAndAncestors(e) \cap s.hidden # {} THEN "hidden" ELSE "visible"

\* the filter of getAllHeadings / getAllLandmarks on the element itself
IsVisible(s, e) ==
  /\ ComputedDisplay(s, e) # "none"
  /\ ComputedVisibility(s, e) # "hidden"
  /\ e \notin s.ariaHidden

\* the element has a box and is shown: neither it nor an ancestor is
\* display: none, and its visibility is not hidden
IsRendered(s, e) ==
  /\ SelfAndAncestors(e) \cap s.displayNone = {}
  /\ ComputedVisibility(s, e) # "hidden"

\* document.querySelectorAll: attached elements matching, in document order
QuerySelectorAll(s, matching) ==
  SelectSeq(DocOrder, LAMBDA e : e \in s.attached /\ e \in matching)

IsFocusable(s, e) ==
  /\ e \in s.attached
  /\ IsRendered(s, e)
  /\ (NativelyFocusable(e) \/ s.tabindex[e] # "none")

\* the one-shot blur listeners of an element run in registration order; each
\* sets the tabindex attribute to the value it captured ("none": removes it)
RECURSIVE ApplyBlurListeners(_, _)
ApplyBlurListeners(value, listeners) ==
  IF listeners = <<>> THEN value
  ELSE ApplyBlurListeners(listeners[1], Tail(listeners))

\* the focused element loses focus: its blur listeners run, and focusout
\* bubbles to the dialog's listener, which clears and restarts its timer
Blur(s) ==
  LET old == s.activeElement IN
  IF old = Body THEN s
  ELSE [s EXCEPT
          !.tabindex[old] = ApplyBlurListeners(@, s.blurListeners[old]),
          !.blurListeners[old] = <<>>,
          !.focusCheckTimeout = IF old \in DialogElements THEN TRUE ELSE @]

\* element.focus()
Focus(s, e) ==
  IF e = Body \/ ~IsFocusable(s, e) \/ s.activeElement = e THEN s
  ELSE [Blur(s) EXCEPT !.activeElement = e]

(***************************************************************************)
(* Element discovery.                                                      *)
(***************************************************************************)
\* getAllHeadings without the final sort
getAllHeadingsUnsorted(s) ==
  LET htmlHeadings == QuerySelectorAll(s, WithHeadingTag)
      ariaHeadings == QuerySelectorAll(s, WithRole["heading"])
      allHeadings == htmlHeadings \o ariaHeadings
      uniqueHeadings == Dedupe(allHeadings)
  IN SelectSeq(uniqueHeadings, LAMBDA e : IsVisible(s, e))

\* a list computed once from the page's markup instead of the live document
getAllHeadingsFromMarkup(s) ==
  SelectSeq(DocOrder, LAMBDA e : e \in PageHeadings)

getAllHeadings(s) ==
  LET htmlHeadings == QuerySelectorAll(s, WithHeadingTag)
      ariaHeadings == QuerySelectorAll(s, WithRole["heading"])
      allHeadings == htmlHeadings \o ariaHeadings
      uniqueHeadings == Dedupe(allHeadings)
      visibleHeadings == SelectSeq(uniqueHeadings, LAMBDA e : IsVisible(s, e))
  IN SortByDocumentPosition(visibleHeadings)

ariaLandmarkRoles ==
  <<"banner", "navigation", "main", "complementary", "contentinfo", "search", "form", "region">>

\* the explicit roles are collected role by role, in the order of the array
RECURSIVE ExplicitLandmarks(_, _)
ExplicitLandmarks(s, roles) ==
  IF roles = <<>> THEN <<>>
  ELSE QuerySelectorAll(s, WithRole[roles[1]])
         \o ExplicitLandmarks(s, Tail(roles))

\* element.closest(selector) # null, for a selector of tag names
HasClosest(e, tags) == \E a \in SelfAndAncestors(e) : TagName(a) \in tags

\* getAllLandmarks without the test for article / section ancestors
getAllLandmarksIgnoringContext(s) ==
  LET headers == QuerySelectorAll(s, WithTag["HEADER"])
      navs == QuerySelectorAll(s, WithTag["NAV"])
      mains == QuerySelectorAll(s, WithTag["MAIN"])
      footers == QuerySelectorAll(s, WithTag["FOOTER"])
      asides == QuerySelectorAll(s, WithTag["ASIDE"])
      sections == QuerySelectorAll(s, {e \in WithTag["SECTION"] : IsLabelled(e)})
      forms == QuerySelectorAll(s, {e \in WithTag["FORM"] : IsLabelled(e)})
      landmarks == ExplicitLandmarks(s, ariaLandmarkRoles) \o headers \o navs
                     \o mains \o footers \o asides \o sections \o forms
      uniqueLandmarks == Dedupe(landmarks)
      visibleLandmarks == SelectSeq(uniqueLandmarks, LAMBDA e : IsVisible(s, e))
  IN SortByDocumentPosition(visibleLandmarks)

getAllLandmarks(s) ==
  LET headers == SelectSeq(QuerySelectorAll(s, WithTag["HEADER"]),
                           LAMBDA e : ~HasClosest(e, {"ARTICLE", "SECTION"}))
      navs == QuerySelectorAll(s, WithTag["NAV"])
      mains == QuerySelectorAll(s, WithTag["MAIN"])
      footers == SelectSeq(QuerySelectorAll(s, WithTag["FOOTER"]),
                           LAMBDA e : ~HasClosest(e, {"ARTICLE", "SECTION"}))
      asides == QuerySelectorAll(s, WithTag["ASIDE"])
      sections == QuerySelectorAll(s, {e \in WithTag["SECTION"] : IsLabelled(e)})
      forms == QuerySelectorAll(s, {e \in WithTag["FORM"] : IsLabelled(e)})
      landmarks == ExplicitLandmarks(s, ariaLandmarkRoles) \o headers \o navs
                     \o mains \o footers \o asides \o sections \o forms
      uniqueLandmarks == Dedupe(landmarks)
      visibleLandmarks == SelectSeq(uniqueLandmarks, LAMBDA e : IsVisible(s, e))
  IN SortByDocumentPosition(visibleLandmarks)

(***************************************************************************)
(* Temporary focusability and the cyclic traversal.                        *)
(***************************************************************************)
\* makeElementFocusableAndFocus without the temporary tabindex
makeElementFocusableAndFocusNoTabIndex(s, element) == Focus(s, element)

\* makeElementFocusableAndFocus without the blur listener
makeElementFocusableAndFocusNoRestore(s, element) ==
  LET originalTabIndex == s.tabindex[element]
      s1 == IF originalTabIndex = "none"
            THEN [s EXCEPT !.tabindex[element] = "-1"] ELSE s
  IN Focus(s1, element)

makeElementFocusableAndFocus(s, element) ==
  LET originalTabIndex == s.tabindex[element]
      s1 == IF originalTabIndex = "none"
            THEN [s EXCEPT !.tabindex[element] = "-1"] ELSE s
      s2 == Focus(s1, element)
  IN IF originalTabIndex = "none"
     THEN [s2 EXCEPT !.blurListeners[element] = Append(@, "none")]
     ELSE s2

\* navigateToNextHeading without the modulo
navigateToNextHeadingMissingWrap(s) ==
  LET headings == getAllHeadings(s)
      index == s.currentHeadingIndex + 1
  IN IF Len(headings) = 0 THEN s
     ELSE IF index >= Len(headings)
     THEN [s EXCEPT !.currentHeadingIndex = index, !.threw = TRUE]
     ELSE makeElementFocusableAndFocus(
            [s EXCEPT !.currentHeadingIndex = index], headings[index + 1])

navigateToNextHeading(s) ==
  LET headings == getAllHeadings(s)
      index == (s.currentHeadingIndex + 1) % Len(headings)
  IN IF Len(headings) = 0 THEN s
     ELSE makeElementFocusableAndFocus(
            [s EXCEPT !.currentHeadingIndex = index], headings[index + 1])

\* navigateToPreviousHeading without the return on an empty list
navigateToPreviousHeadingNoEmptyCheck(s) ==
  LET headings == getAllHeadings(s)
      index == IF s.currentHeadingIndex <= 0 THEN Len(headings) - 1
               ELSE s.currentHeadingIndex - 1
  IN IF index < 0 \/ index >= Len(headings)
     THEN [s EXCEPT !.currentHeadingIndex = index, !.threw = TRUE]
     ELSE makeElementFocusableAndFocus(
            [s EXCEPT !.currentHeadingIndex = index], headings[index + 1])

\* headings[i] of an index outside the array is undefined, and
\* getHeadingLevel / getLandmarkRole then throw a TypeError
navigateToPreviousHeading(s) ==
  LET headings == getAllHeadings(s)
      index == IF s.currentHeadingIndex <= 0 THEN Len(headings) - 1
               ELSE s.currentHeadingIndex - 1
  IN IF Len(headings) = 0 THEN s
     ELSE IF index >= Len(headings)
     THEN [s EXCEPT !.currentHeadingIndex = index, !.threw = TRUE]
     ELSE makeElementFocusableAndFocus(
            [s EXCEPT !.currentHeadingIndex = index], headings[index + 1])

navigateToNextLandmark(s) ==
  LET landmarks == getAllLandmarks(s)
      index == (s.currentLandmarkIndex + 1) % Len(landmarks)
  IN IF Len(landmarks) = 0 THEN s
     ELSE makeElementFocusableAndFocus(
            [s EXCEPT !.currentLandmarkIndex = index], landmarks[index + 1])

navigateToPreviousLandmark(s) ==
  LET landmarks == getAllLandmarks(s)
      index == IF s.currentLandmarkIndex <= 0 THEN Len(landmarks) - 1
               ELSE s.currentLandmarkIndex - 1
  IN IF Len(landmarks) = 0 THEN s
     ELSE IF index >= Len(landmarks)
     THEN [s EXCEPT !.currentLandmarkIndex = index, !.threw = TRUE]
     ELSE makeElementFocusableAndFocus(
            [s EXCEPT !.currentLandmarkIndex = index], landmarks[index + 1])

(***************************************************************************)
(* Jump commands and bulk tab.                                             *)
(***************************************************************************)
\* tabindex = -1, focus, and a one-shot blur listener restoring the original
FocusAndRestoreOnBlur(s, element) ==
  LET originalTabIndex == s.tabindex[element]
      s1 == Focus([s EXCEPT !.tabindex[element] = "-1"], element)
  IN [s1 EXCEPT !.blurListeners[element] = Append(@, originalTabIndex)]

\* document.querySelector: the first match in document order, Null if none
QuerySelector(s, matching) ==
  LET found == QuerySelectorAll(s, matching)
  IN IF found = <<>> THEN Null ELSE found[1]

\* focusMainHeading without the test of the query's result: getAttribute
\* of null throws a TypeError
focusMainHeadingNoCheck(s) ==
  LET heading == QuerySelector(s, WithTag["H1"])
  IN IF heading = Null THEN [s EXCEPT !.threw = TRUE]
     ELSE FocusAndRestoreOnBlur(s, heading)

focusMainHeading(s) ==
  LET heading == QuerySelector(s, WithTag["H1"])
  IN IF heading = Null THEN s ELSE FocusAndRestoreOnBlur(s, heading)

focusMainContent(s) ==
  LET main == QuerySelector(s, WithTag["MAIN"] \cup WithRole["main"])
  IN IF main = Null THEN s ELSE FocusAndRestoreOnBlur(s, main)

focusNavigation(s) ==
  LET nav == QuerySelector(s, WithTag["NAV"] \cup WithRole["navigation"])
  IN IF nav = Null THEN s ELSE FocusAndRestoreOnBlur(s, nav)

\* offsetParent is null for an element without a box (it or an ancestor is
\* display: none) and for a fixed element: the focused skip link is
\* position: fixed
OffsetParentIsNull(s, e) ==
  \/ SelfAndAncestors(e) \cap s.displayNone # {}
  \/ e = "skip_a" /\ s.activeElement = "skip_a"

\* index of x in seq counted from 0, -1 if absent (Array.prototype.indexOf)
IndexOf(seq, x) ==
  IF \E i \in 1..Len(seq) : seq[i] = x
  THEN (CHOOSE i \in 1..Len(seq) : seq[i] = x /\ \A j \in 1..(i - 1) : seq[j] # x) - 1
  ELSE -1

Min(a, b) == IF a <= b THEN a ELSE b

tabMultipleTimes(s, count) ==
  LET focusableElements ==
        QuerySelectorAll(s, {e \in Elements :
          \/ TagName(e) \in {"A", "BUTTON", "INPUT", "SELECT", "TEXTAREA"}
          \/ s.tabindex[e] \notin {"none", "-1"}})
      visibleFocusable ==
        SelectSeq(focusableElements,
                  LAMBDA e : /\ ComputedDisplay(s, e) # "none"
                             /\ ComputedVisibility(s, e) # "hidden"
                             /\ ~OffsetParentIsNull(s, e))
      currentIndex == IndexOf(visibleFocusable, s.activeElement)
      newIndex == IF currentIndex = -1
                  THEN Min(count - 1, Len(visibleFocusable) - 1)
                  ELSE (currentIndex + count) % Len(visibleFocusable)
  IN IF Len(focusableElements) = 0 \/ Len(visibleFocusable) = 0 THEN s
     ELSE Focus(s, visibleFocusable[newIndex + 1])

(***************************************************************************)
(* Skip links.                                                             *)
(***************************************************************************)
\* a removed subtree is never inserted again: the next one is built anew
DiscardSubtree(s, subtree) ==
  [s EXCEPT
     !.attached = @ \ subtree,
     !.activeElement = IF @ \in subtree THEN Body ELSE @,
     !.lastFocusedElement = IF @ \in subtree THEN Detached ELSE @,
     !.tabindex = [e \in Elements |-> IF e \in subtree THEN "none" ELSE @[e]],
     !.blurListeners = [e \in Elements |-> IF e \in subtree THEN <<>> ELSE @[e]]]

addSkipLinks(s) ==
  IF "skip_links" \in s.attached THEN s
  ELSE [s EXCEPT !.skipLinksContainer = TRUE, !.attached = @ \cup SkipElements]

removeSkipLinks(s) ==
  IF s.skipLinksContainer /\ "skip_links" \in s.attached
  THEN [DiscardSubtree(s, SkipElements) EXCEPT !.skipLinksContainer = FALSE]
  ELSE s

initKeyboardNavigation(s) == addSkipLinks([s EXCEPT !.keyListener = TRUE])

\* disableKeyboardNavigation without the removeEventListener
disableKeyboardNavigationKeepsListener(s) == removeSkipLinks(s)

disableKeyboardNavigation(s) == removeSkipLinks([s EXCEPT !.keyListener = FALSE])

\* the startup callback without the test of the stored value
storageGetCallbackIgnoresResult(s, enabled, debugMode) ==
  initKeyboardNavigation([s EXCEPT !.startupPending = FALSE, !.isEnabled = TRUE,
                                   !.DEBUG_FOCUS = (debugMode = "true")])

\* the callback of chrome.storage.sync.get(['enabled', 'debugMode'], ...);
\* enabled and debugMode are the stored values, "undefined" when the key is
\* absent
storageGetCallback(s, enabled, debugMode) ==
  LET s1 == [s EXCEPT !.startupPending = FALSE,
                      !.isEnabled = (enabled # "false"),
                      !.DEBUG_FOCUS = (debugMode = "true")]
  IN IF s1.isEnabled THEN initKeyboardNavigation(s1) ELSE s1

\* the toggle listener starting both traversals over
toggleMessageListenerResetsCursors(s, enabled) ==
  LET s1 == [s EXCEPT !.isEnabled = enabled,
                      !.currentHeadingIndex = -1,
                      !.currentLandmarkIndex = -1]
  IN IF enabled THEN initKeyboardNavigation(s1) ELSE disableKeyboardNavigation(s1)

\* the chrome.runtime.onMessage listener on {action: 'toggle', enabled}
toggleMessageListener(s, enabled) ==
  LET s1 == [s EXCEPT !.isEnabled = enabled]
  IN IF enabled THEN initKeyboardNavigation(s1) ELSE disableKeyboardNavigation(s1)

(***************************************************************************)
(* Help dialog.                                                            *)
(***************************************************************************)
\* closeHelpDialog without the final reset of lastFocusedElement
closeHelpDialogKeepsCapture(s) ==
  IF ~s.helpDialogOpen \/ ~s.helpDialogElement THEN s
  ELSE
    LET inside == s.activeElement \in DialogElements
        timerLeft == s.focusCheckTimeout \/ (inside /\ s.removalFiresFocusout)
        removed == IF "dlg" \in s.attached THEN DiscardSubtree(s, DialogElements) ELSE s
        s1 == [removed EXCEPT
                 !.staleTimeouts = IF timerLeft THEN @ + 1 ELSE @,
                 !.focusCheckTimeout = FALSE,
                 !.helpDialogElement = FALSE,
                 !.helpDialogOpen = FALSE]
        last == s1.lastFocusedElement
    IN IF last \notin {Null, Detached} /\ (last = Body \/ last \in s1.attached)
       THEN Focus(s1, last)
       ELSE IF "skip_links" \in s1.attached
       THEN Focus(s1, "skip_a")
       ELSE s1

\* closing with the focus-settle timer pending, or with a focusout fired by
\* the removal itself, leaves that timer pending after the dialog is gone
closeHelpDialog(s) ==
  IF ~s.helpDialogOpen \/ ~s.helpDialogElement THEN s
  ELSE
    LET inside == s.activeElement \in DialogElements
        timerLeft == s.focusCheckTimeout \/ (inside /\ s.removalFiresFocusout)
        removed == IF "dlg" \in s.attached THEN DiscardSubtree(s, DialogElements) ELSE s
        s1 == [removed EXCEPT
                 !.staleTimeouts = IF timerLeft THEN @ + 1 ELSE @,
                 !.focusCheckTimeout = FALSE,
                 !.helpDialogElement = FALSE,
                 !.helpDialogOpen = FALSE]
        last == s1.lastFocusedElement
        s2 == IF last \notin {Null, Detached} /\ (last = Body \/ last \in s1.attached)
              THEN Focus(s1, last)
              ELSE IF "skip_links" \in s1.attached
              THEN Focus(s1, "skip_a")
              ELSE s1
    IN [s2 EXCEPT !.lastFocusedElement = Null]

\* the elements setupFocusTrap finds in the new dialog
DialogFocusable ==
  SelectSeq(DocOrder, LAMBDA e : e \in DialogElements
                                  /\ TagName(e) \in {"BUTTON", "A", "INPUT", "SELECT", "TEXTAREA"})
firstFocusable == DialogFocusable[1]
lastFocusable == DialogFocusable[Len(DialogFocusable)]

\* the stored values the callbacks compare with false and true: the two
\* booleans, an absent key, and values that are neither boolean
StoredValues == {"true", "false", "undefined", "null", "0", "1", "'false'", "'true'"}

\* the value chrome.storage.sync.set({ debugMode: DEBUG_FOCUS }) stores
StoredDebugMode(flag) == IF flag THEN "true" ELSE "false"

\* the switch's handler storing the flag it found instead of the new one
debugToggleClickStoresOld(s) ==
  [s EXCEPT !.DEBUG_FOCUS = ~s.DEBUG_FOCUS,
            !.storageDebugMode = StoredDebugMode(s.DEBUG_FOCUS)]

\* the click listener of the dialog's debug switch
debugToggleClick(s) ==
  LET s1 == [s EXCEPT !.DEBUG_FOCUS = ~s.DEBUG_FOCUS]
  IN [s1 EXCEPT !.storageDebugMode = StoredDebugMode(s1.DEBUG_FOCUS)]

\* openHelpDialog without its early return
openHelpDialogNoGuard(s) ==
  LET s1 == [s EXCEPT !.lastFocusedElement = s.activeElement,
                      !.helpDialogElement = TRUE,
                      !.attached = @ \cup DialogElements]
      s2 == Focus(s1, "dlg_close")
  IN [s2 EXCEPT !.helpDialogOpen = TRUE]

openHelpDialog(s) ==
  IF s.helpDialogOpen THEN s
  ELSE
    LET s1 == [s EXCEPT !.lastFocusedElement = s.activeElement,
                        !.helpDialogElement = TRUE,
                        !.attached = @ \cup DialogElements]
        s2 == Focus(s1, "dlg_close")
    IN [s2 EXCEPT !.helpDialogOpen = TRUE]

\* toggleHelpDialog that opens whatever the flag says
toggleHelpDialogOpensOnly(s) == openHelpDialog(s)

toggleHelpDialog(s) ==
  IF s.helpDialogOpen THEN closeHelpDialog(s) ELSE openHelpDialog(s)

\* the trap without the Shift+Tab branch
FocusTrapKeydownForwardOnly(s, event) ==
  IF event.key # "Tab" THEN s
  ELSE IF ~event.shiftKey /\ s.activeElement = lastFocusable
  THEN [Focus(s, firstFocusable) EXCEPT !.defaultPrevented = TRUE]
  ELSE s

\* the keydown listener setupFocusTrap puts on the dialog element
FocusTrapKeydown(s, event) ==
  IF event.key # "Tab" THEN s
  ELSE IF event.shiftKey /\ s.activeElement = firstFocusable
  THEN [Focus(s, lastFocusable) EXCEPT !.defaultPrevented = TRUE]
  ELSE IF ~event.shiftKey /\ s.activeElement = lastFocusable
  THEN [Focus(s, firstFocusable) EXCEPT !.defaultPrevented = TRUE]
  ELSE s

\* the timeout's body without the test of where the focus is
FocusCheckIgnoresFocus(s) == IF s.helpDialogOpen THEN closeHelpDialog(s) ELSE s

\* the timeout's body comparing the focused element with the dialog node
\* instead of asking the node whether it contains it
FocusCheckByIdentity(s) ==
  LET isInsideDialog == s.helpDialogElement /\ s.activeElement = "dlg"
  IN IF ~isInsideDialog /\ s.helpDialogOpen THEN closeHelpDialog(s) ELSE s

\* the body of the timeout setupFocusOutHandler starts on focusout
FocusCheck(s) ==
  LET isInsideDialog == s.helpDialogElement /\ s.activeElement \in DialogElements
  IN IF ~isInsideDialog /\ s.helpDialogOpen THEN closeHelpDialog(s) ELSE s

(***************************************************************************)
(* Keyboard dispatch.                                                      *)
(***************************************************************************)
editableElements == {"INPUT", "TEXTAREA", "SELECT"}
ariaRoles == {"textbox", "searchbox", "combobox", "listbox", "tree", "grid"}

\* shouldIgnoreKeyEvent without the CapsLock test
shouldIgnoreKeyEventNoCapsLock(event) ==
  \/ TagName(event.target) \in editableElements
  \/ IsContentEditable(event.target)
  \/ RoleAttr(event.target) \in ariaRoles

\* shouldIgnoreKeyEvent with INPUT missing from editableElements
shouldIgnoreKeyEventNoInput(event) ==
  \/ TagName(event.target) \in {"TEXTAREA", "SELECT"}
  \/ IsContentEditable(event.target)
  \/ RoleAttr(event.target) \in ariaRoles
  \/ event.capsLock

shouldIgnoreKeyEvent(event) ==
  \/ TagName(event.target) \in editableElements
  \/ IsContentEditable(event.target)
  \/ RoleAttr(event.target) \in ariaRoles
  \/ event.capsLock

AltShiftOnly(event) ==
  event.altKey /\ event.shiftKey /\ ~event.ctrlKey /\ ~event.metaKey

\* the shortcuts behind the guard
Shortcuts(s, event) ==
  IF event.key = "H" /\ AltShiftOnly(event) THEN focusMainHeading(s)
  ELSE IF event.key = "M" /\ AltShiftOnly(event) THEN focusMainContent(s)
  ELSE IF event.key = "N" /\ AltShiftOnly(event) THEN focusNavigation(s)
  ELSE IF event.key = "%" /\ AltShiftOnly(event) THEN tabMultipleTimes(s, 5)
  ELSE IF event.key = ")" /\ AltShiftOnly(event) THEN tabMultipleTimes(s, 10)
  ELSE IF event.key = "h" /\ ~event.altKey /\ ~event.shiftKey /\ ~event.ctrlKey /\ ~event.metaKey
  THEN navigateToNextHeading(s)
  ELSE IF event.key = "H" /\ event.shiftKey /\ ~event.altKey /\ ~event.ctrlKey /\ ~event.metaKey
  THEN navigateToPreviousHeading(s)
  ELSE IF event.key = "l" /\ ~event.altKey /\ ~event.shiftKey /\ ~event.ctrlKey /\ ~event.metaKey
  THEN navigateToNextLandmark(s)
  ELSE IF event.key = "L" /\ event.shiftKey /\ ~event.altKey /\ ~event.ctrlKey /\ ~event.metaKey
  THEN navigateToPreviousLandmark(s)
  ELSE s

IsHelpToggle(s, event) ==
  /\ event.key = "/"
  /\ ((event.ctrlKey /\ ~s.isMac) \/ (event.metaKey /\ s.isMac))
  /\ ~event.altKey /\ ~event.shiftKey

\* handleKeyPress with the guard evaluated before the toggle and Escape
handleKeyPressGuardFirst(s, event) ==
  IF shouldIgnoreKeyEvent(event) THEN s
  ELSE IF IsHelpToggle(s, event) THEN toggleHelpDialog(s)
  ELSE IF event.key = "Escape" /\ s.helpDialogOpen THEN closeHelpDialog(s)
  ELSE Shortcuts(s, event)

handleKeyPress(s, event) ==
  IF IsHelpToggle(s, event) THEN toggleHelpDialog(s)
  ELSE IF event.key = "Escape" /\ s.helpDialogOpen THEN closeHelpDialog(s)
  ELSE IF shouldIgnoreKeyEvent(event) THEN s
  ELSE Shortcuts(s, event)

\* the browser's own handling of Tab / Shift+Tab: the next (previous)
\* tabbable element in document order; past the last (first) one the focus
\* leaves the page content
DefaultTab(s, event) ==
  LET tabbable == SelectSeq(DocOrder, LAMBDA e :
                    IsFocusable(s, e) /\ s.tabindex[e] # "-1")
      from == Pos(s.activeElement)
      after == SelectSeq(tabbable, LAMBDA e : Pos(e) > from)
      before == SelectSeq(tabbable, LAMBDA e : Pos(e) < from)
  IN IF ~event.shiftKey
     THEN IF after # <<>> THEN Focus(s, after[1])
          ELSE [Blur(s) EXCEPT !.activeElement = Body]
     ELSE IF s.activeElement = Body
          THEN IF tabbable # <<>> THEN Focus(s, tabbable[Len(tabbable)]) ELSE s
          ELSE IF before # <<>> THEN Focus(s, before[Len(before)])
          ELSE [Blur(s) EXCEPT !.activeElement = Body]

\* the keys and modifier combinations of the model
DialogKeys == {<<"/", "ctrl">>, <<"/", "meta">>, <<"/", "ctrl+shift">>, <<"Escape", "">>}
TraversalKeys == {<<"h", "">>, <<"H", "shift">>, <<"l", "">>, <<"L", "shift">>, <<"h", "ctrl">>}
JumpKeys == {<<"H", "alt+shift">>, <<"M", "alt+shift">>, <<"N", "alt+shift">>}
BulkTabKeys == {<<"%", "alt+shift">>, <<")", "alt+shift">>}
TabKeys == {<<"Tab", "">>, <<"Tab", "shift">>}
KeyCombos == DialogKeys \cup TraversalKeys \cup JumpKeys \cup BulkTabKeys \cup TabKeys

KeyboardEvent(combo, capsLock, target) ==
  [key |-> combo[1],
   ctrlKey |-> combo[2] \in {"ctrl", "ctrl+shift"},
   metaKey |-> combo[2] = "meta",
   altKey |-> combo[2] = "alt+shift",
   shiftKey |-> combo[2] \in {"shift", "alt+shift", "ctrl+shift"},
   capsLock |-> capsLock,
   target |-> target]

\* One keydown on the focused element: the capture listener on document,
\* then the dialog's own listener when the target is inside the dialog, then
\* the default action of Tab unless prevented.
DispatchKeydown(s, combo, capsLock) ==
  LET event == KeyboardEvent(combo, capsLock, s.activeElement)
      s0 == [s EXCEPT !.threw = FALSE]
      s1 == IF s0.keyListener THEN handleKeyPress(s0, event) ELSE s0
      s2 == IF event.target \in DialogElements THEN FocusTrapKeydown(s1, event) ELSE s1
  IN IF event.key = "Tab" /\ ~s2.defaultPrevented THEN DefaultTab(s2, event) ELSE s2

(***************************************************************************)
(* Actions.                                                                *)
(***************************************************************************)
\* the styles a host page may give an element of its own
Styles == {"", "display", "visibility", "aria-hidden"}

\* the script has been injected into a page holding the elements of page,
\* styled by style (a function from some of its elements to Styles), with
\* debugMode as the stored 'debugMode'
InitStored(page, style, debugMode) ==
  /\ isMac \in BOOLEAN
  /\ startupPending = TRUE
  /\ isEnabled = TRUE
  /\ keyListener = FALSE
  /\ skipLinksContainer = FALSE
  /\ currentHeadingIndex = -1
  /\ currentLandmarkIndex = -1
  /\ helpDialogOpen = FALSE
  /\ helpDialogElement = FALSE
  /\ lastFocusedElement = Null
  /\ activeElement = Body
  /\ attached = page
  /\ hidden = {e \in DOMAIN style : style[e] = "visibility"}
  /\ displayNone = {e \in DOMAIN style : style[e] = "display"}
  /\ ariaHidden = {e \in DOMAIN style : style[e] = "aria-hidden"}
  /\ tabindex = [e \in Elements |-> PageTabIndex(e)]
  /\ blurListeners = [e \in Elements |-> <<>>]
  /\ focusCheckTimeout = FALSE
  /\ staleTimeouts = 0
  /\ threw = FALSE
  /\ pageChanges = 0
  /\ DEBUG_FOCUS = FALSE
  /\ storageDebugMode = debugMode

\* the same with no 'debugMode' stored
InitStyled(page, style) == InitStored(page, style, "undefined")

\* a page that hides nothing
InitOn(page) == InitStyled(page, <<>>)

\* no click on the popup yet; stored is the value of 'enabled' in storage
ExtensionInit(stored) ==
  /\ storageEnabled = stored
  /\ popupClicks = <<>>
  /\ toggleMessages = <<>>
  /\ startupRead = "pending"
  /\ processedClicks = <<>>
  /\ lastWrite = 0
  /\ ariaPressed = "unset"
  /\ loadPending = TRUE
  /\ requests = <<>>

\* the browser's behaviour matters only when a removal takes the focus away
RemovalBehaviours == IF activeElement \in DialogElements THEN BOOLEAN ELSE {FALSE}

\* the state a handler starts in
Entry(b) == [State(b) EXCEPT !.threw = FALSE]

\* chrome.storage.sync.get(['enabled', 'debugMode'], ...) calls back
StartupCallback ==
  /\ startupPending
  /\ \E enabled \in {"true", "false", "undefined"} :
       SetState(storageGetCallback(Entry(FALSE), enabled, storageDebugMode))

\* chrome.runtime.onMessage: {action: 'toggle', enabled}
OnToggleMessage ==
  \E enabled \in BOOLEAN :
    SetState(toggleMessageListener(Entry(FALSE), enabled))

\* a keydown of one of the given combinations on the focused element
KeyDownOf(combos) ==
  \E combo \in combos, capsLock \in BOOLEAN, b \in RemovalBehaviours :
    SetState(DispatchKeydown(Entry(b), combo, capsLock))

\* a focus-settle timer expires
FocusCheckTimerFires ==
  \/ /\ focusCheckTimeout
     /\ SetState(FocusCheck([Entry(FALSE) EXCEPT !.focusCheckTimeout = FALSE]))
  \/ /\ staleTimeouts > 0
     /\ SetState(FocusCheck([Entry(FALSE) EXCEPT !.staleTimeouts = @ - 1]))

\* the user activates the dialog's close button
CloseButtonClick ==
  /\ "dlg_close" \in attached
  /\ \E b \in {FALSE, TRUE} :
       SetState(closeHelpDialog(Focus(Entry(b), "dlg_close")))

\* the user activates the dialog's debug switch
DebugSwitchClick ==
  /\ "dlg_debug" \in attached
  /\ SetState(debugToggleClick(Focus(Entry(FALSE), "dlg_debug")))

\* chrome.storage.sync.get calls back with what is stored, 'enabled' being
\* any of the stored values
StartupCallbackOfStorage ==
  /\ startupPending
  /\ \E enabled \in StoredValues :
       SetState(storageGetCallback(Entry(FALSE), enabled, storageDebugMode))

\* the user activates the skip link
SkipLinkClick ==
  /\ "skip_a" \in attached
  /\ SetState(focusMainContent(Focus(Entry(FALSE), "skip_a")))

\* the user moves the focus with the pointer
UserFocus ==
  \E e \in Elements \cup {Body} :
    /\ e # activeElement
    /\ e = Body \/ IsFocusable(State(FALSE), e)
    /\ SetState(IF e = Body THEN [Blur(Entry(FALSE)) EXCEPT !.activeElement = Body]
                ELSE Focus(Entry(FALSE), e))

\* the host page changes under the script (never the focused element)
PageHides ==
  \E e \in Hideable :
    /\ e \in attached /\ e \notin hidden /\ e # activeElement
    /\ SetState([Entry(FALSE) EXCEPT !.hidden = @ \cup {e}, !.pageChanges = @ + 1])

PageShows ==
  \E e \in hidden :
    SetState([Entry(FALSE) EXCEPT !.hidden = @ \ {e}, !.pageChanges = @ + 1])

PageRemoves ==
  \E e \in Removable :
    /\ e \in attached /\ e # activeElement
    /\ SetState([Entry(FALSE) EXCEPT !.attached = @ \ {e}, !.pageChanges = @ + 1])

\* the host page hides a heading with visibility: hidden, display: none or
\* aria-hidden="true" on the heading, and shows it again
StyledBy(s, e) == e \in s.hidden \cup s.displayNone \cup s.ariaHidden

PageHidesAnyWay ==
  \E e \in Hideable, style \in Styles \ {""} :
    /\ e \in attached /\ ~StyledBy(State(FALSE), e) /\ e # activeElement
    /\ SetState([Entry(FALSE) EXCEPT
                   !.hidden = IF style = "visibility" THEN @ \cup {e} ELSE @,
                   !.displayNone = IF style = "display" THEN @ \cup {e} ELSE @,
                   !.ariaHidden = IF style = "aria-hidden" THEN @ \cup {e} ELSE @,
                   !.pageChanges = @ + 1])

PageShowsAgain ==
  \E e \in Hideable :
    /\ StyledBy(State(FALSE), e)
    /\ SetState([Entry(FALSE) EXCEPT !.hidden = @ \ {e},
                                      !.displayNone = @ \ {e},
                                      !.ariaHidden = @ \ {e},
                                      !.pageChanges = @ + 1])

\* the host page inserts a heading: a new node, with the markup's attributes
PageAdds ==
  \E e \in Addable :
    /\ e \notin attached
    /\ SetState([Entry(FALSE) EXCEPT !.attached = @ \cup {e},
                                      !.hidden = @ \ {e},
                                      !.displayNone = @ \ {e},
                                      !.ariaHidden = @ \ {e},
                                      !.tabindex[e] = PageTabIndex(e),
                                      !.blurListeners[e] = <<>>,
                                      !.pageChanges = @ + 1])

\* the host page rebuilds its body and drops the injected skip links; the
\* script's variable still holds the removed container
PageRemovesSkipLinks ==
  /\ "skip_links" \in attached
  /\ SetState([DiscardSubtree(Entry(FALSE), SkipElements) EXCEPT !.pageChanges = @ + 1])

(***************************************************************************)
(* The popup (popup.js), chrome.storage.sync and the toggle messages.      *)
(***************************************************************************)
\* const newState = !(result.enabled !== false)
newState(enabled) == ~(enabled # "false")

\* the value chrome.storage.sync.set({ enabled: newState }) stores
Stored(enabled) == IF enabled THEN "true" ELSE "false"

\* background.js stores enabled: true on installation; before that the key
\* is absent
InstalledValues == {"undefined", "true"}

\* updateButtonState that marks the button pressed whatever the argument
updateButtonStateAlwaysPressed(enabled) == "true"

\* updateButtonState(enabled): enabled.toString() into aria-pressed
updateButtonState(enabled) == IF enabled THEN "true" ELSE "false"

\* the popup's storage.get on load calls back
PopupLoadCallback ==
  /\ loadPending
  /\ loadPending' = FALSE
  /\ ariaPressed' = updateButtonState(storageEnabled # "false")
  /\ UNCHANGED <<contentVars, requests, storageEnabled, popupClicks, toggleMessages, startupRead,
                 processedClicks, lastWrite>>

\* the user clicks the toggle button: the handler issues storage.get
PopupClick ==
  /\ Len(popupClicks) < MaxClicks
  /\ popupClicks' = Append(popupClicks, [stage |-> "get", read |-> "pending",
                                         newState |-> FALSE, sent |-> 0])
  /\ UNCHANGED <<contentVars, requests, storageEnabled, toggleMessages, startupRead, processedClicks,
                 lastWrite, ariaPressed, loadPending>>

\* storage answers a click's get: its callback computes newState and issues
\* storage.set
PopupGetCallback ==
  \E i \in 1..Len(popupClicks) :
    /\ popupClicks[i].stage = "get"
    /\ popupClicks' = [popupClicks EXCEPT ![i] =
                         [@ EXCEPT !.stage = "set", !.read = storageEnabled,
                                   !.newState = newState(storageEnabled)]]
    /\ UNCHANGED <<contentVars, requests, storageEnabled, toggleMessages, startupRead, processedClicks,
                   lastWrite, ariaPressed, loadPending>>

\* storage performs a click's set: its callback updates the button and
\* issues tabs.query
PopupSetCallback ==
  \E i \in 1..Len(popupClicks) :
    /\ popupClicks[i].stage = "set"
    /\ storageEnabled' = Stored(popupClicks[i].newState)
    /\ ariaPressed' = updateButtonState(popupClicks[i].newState)
    /\ popupClicks' = [popupClicks EXCEPT ![i].stage = "query"]
    /\ lastWrite' = i
    /\ UNCHANGED <<contentVars, requests, toggleMessages, startupRead, processedClicks, loadPending>>

\* the messages the callback of tabs.query sends: one toggle message when
\* tabs[0]?.id is truthy, none otherwise
tabsQueryCallback(click, enabled, hasTabId) ==
  IF hasTabId THEN <<[click |-> click, enabled |-> enabled]>> ELSE <<>>

\* tabs.query calls back, with or without an active tab that has an id
PopupTabsQueryCallback ==
  \E i \in 1..Len(popupClicks), hasTabId \in BOOLEAN :
    LET sent == tabsQueryCallback(i, popupClicks[i].newState, hasTabId) IN
    /\ popupClicks[i].stage = "query"
    /\ popupClicks' = [popupClicks EXCEPT ![i].stage = "done", ![i].sent = @ + Len(sent)]
    /\ toggleMessages' = toggleMessages \o sent
    /\ UNCHANGED <<contentVars, requests, storageEnabled, startupRead, processedClicks, lastWrite,
                   ariaPressed, loadPending>>

\* the callback of sendMessage that sends the message again on an error
sendMessageCallbackResends(message, lastError) ==
  IF lastError THEN <<message>> ELSE <<>>

\* the messages the callback of sendMessage sends: it logs
\* chrome.runtime.lastError and does nothing else
sendMessageCallback(message, lastError) == <<>>

\* the sendMessage of the oldest message in flight completes: toggleMessages
\* and the clicks' counts of sent messages afterwards
AfterSendMessage(lastError) ==
  LET message == Head(toggleMessages)
      sent == sendMessageCallback(message, lastError)
  IN /\ toggleMessages' = Tail(toggleMessages) \o sent
     /\ popupClicks' = [popupClicks EXCEPT ![message.click].sent = @ + Len(sent)]

\* the oldest message in flight reaches the content script
ToggleMessageDelivered ==
  /\ toggleMessages # <<>>
  /\ SetContentState(toggleMessageListener(Entry(FALSE), Head(toggleMessages).enabled))
  /\ AfterSendMessage(FALSE)
  /\ processedClicks' = Append(processedClicks, Head(toggleMessages).click)
  /\ UNCHANGED <<storageEnabled, startupRead, lastWrite, ariaPressed, loadPending, requests>>

\* the message is not delivered (the tab shows a page without the content
\* script): chrome.runtime.lastError is set in the callback
ToggleMessageLost ==
  /\ toggleMessages # <<>>
  /\ AfterSendMessage(TRUE)
  /\ UNCHANGED <<contentVars, requests, storageEnabled, startupRead, processedClicks, lastWrite,
                 ariaPressed, loadPending>>

\* storage answers the content script's get
StartupRead ==
  /\ startupRead = "pending"
  /\ startupRead' = storageEnabled
  /\ UNCHANGED <<contentVars, requests, storageEnabled, popupClicks, toggleMessages, processedClicks,
                 lastWrite, ariaPressed, loadPending>>

\* the content script's get callback runs with the value that was read
StartupCallbackOfRead ==
  /\ startupPending
  /\ startupRead # "pending"
  /\ SetState(storageGetCallback(Entry(FALSE), startupRead, storageDebugMode))

(***************************************************************************)
(* The background worker (background.js).                                  *)
(***************************************************************************)
\* an install handler that stores the default only when no value is stored
installedValueIfAbsent(previous) ==
  IF previous = "undefined" THEN "true" ELSE previous

\* the value stored by chrome.storage.sync.set({ enabled: true })
installedValue(previous) == "true"

\* chrome.runtime.onInstalled fires (installation, or an update of the
\* extension or of the browser) and the listener's write is performed
OnInstalled ==
  /\ storageEnabled' = installedValue(storageEnabled)
  /\ UNCHANGED <<contentVars, popupClicks, toggleMessages, startupRead, processedClicks,
                 lastWrite, ariaPressed, loadPending, requests>>

\* the actions of the messages sent to the worker
RequestActions == {"getState", "toggle", "ping"}

\* the onMessage listener returns true, keeping the channel open for an
\* asynchronous sendResponse, exactly when it has issued storage.get
onMessageReturnsTrue(request) == request.action = "getState"

\* the response with enabled true only for a stored true
getStateResponseOfStoredTrue(enabled) == [enabled |-> enabled = "true"]

\* sendResponse({ enabled: result.enabled !== false })
getStateResponse(enabled) == [enabled |-> enabled # "false"]

\* chrome.runtime.onMessage of the worker: a message arrives
BackgroundOnMessage ==
  /\ Len(requests) < MaxRequests
  /\ \E action \in RequestActions :
       LET request == [action |-> action] IN
       requests' = Append(requests,
                     [action |-> action,
                      stage |-> IF onMessageReturnsTrue(request) THEN "get" ELSE "closed",
                      read |-> "pending",
                      responses |-> <<>>])
  /\ UNCHANGED <<contentVars, storageEnabled, popupClicks, toggleMessages, startupRead,
                 processedClicks, lastWrite, ariaPressed, loadPending>>

\* storage answers the worker's get: the callback calls sendResponse
BackgroundGetCallback ==
  \E i \in 1..Len(requests) :
    /\ requests[i].stage = "get"
    /\ requests' = [requests EXCEPT ![i] =
                      [@ EXCEPT !.stage = "answered", !.read = storageEnabled,
                                !.responses = Append(@, getStateResponse(storageEnabled))]]
    /\ UNCHANGED <<contentVars, storageEnabled, popupClicks, toggleMessages, startupRead,
                   processedClicks, lastWrite, ariaPressed, loadPending>>

(***************************************************************************)
(* Specifications.                                                         *)
(*                                                                         *)
(* Spec: the script on the whole host page of the model, on either         *)
(* platform; the user presses the dialog, traversal and Tab keys, moves    *)
(* the focus with the pointer and uses the close button and the skip link; *)
(* the popup sends toggle messages once the script has started.            *)
(*                                                                         *)
(* SpecPage: the same page changing under the script (headings hidden and  *)
(* shown, elements removed) while the user presses the traversal keys.     *)
(***************************************************************************)
\* Spec and SpecPage do not follow the popup and the storage: the value the
\* startup callback receives and the toggle messages are arbitrary there
Init == InitOn(PageElements) /\ ExtensionInit("true")

KeyDown == KeyDownOf(DialogKeys \cup TraversalKeys \cup TabKeys)

ToggleMessageAfterStartup == ~startupPending /\ OnToggleMessage

Next ==
  \/ StartupCallback
  \/ ToggleMessageAfterStartup
  \/ KeyDown
  \/ FocusCheckTimerFires
  \/ CloseButtonClick
  \/ SkipLinkClick
  \/ UserFocus

Spec == Init /\ [][Next]_vars

TraversalKeyDown == KeyDownOf(TraversalKeys)

NextPage ==
  \/ StartupCallback
  \/ TraversalKeyDown
  \/ PageHides
  \/ PageShows
  \/ PageRemoves

SpecPage == Init /\ [][NextPage]_vars

\* SpecTree: the script on the richer host page, whose containers and
\* nested headings the page may have styled display: none, visibility:
\* hidden or aria-hidden before the script runs; the user presses the
\* traversal keys.
TreeStyled == {"wrap", "h_in", "box"}

InitTree ==
  /\ \E style \in [TreeStyled -> Styles] :
       InitStyled(PageElements \cup TreeElements, style)
  /\ ExtensionInit("true")

NextTree ==
  \/ StartupCallback
  \/ TraversalKeyDown

SpecTree == InitTree /\ [][NextTree]_vars

\* SpecSparse: the script on host pages that lack headings, landmarks or
\* focusable elements, changing under the script (headings inserted, hidden,
\* shown, elements removed, the injected skip links dropped); the user
\* presses the traversal, jump and bulk-tab keys. The platform matters to
\* the help toggle only, which is not pressed here.
SparsePages ==
  {{}, {"h_a", "input"}, {"h_title", "h_a", "nav", "main"}}

InitSparse ==
  /\ \E page \in SparsePages : InitOn(page)
  /\ ~isMac
  /\ ExtensionInit("true")

\* with CapsLock on the guard makes every one of these keys a no-op, so
\* the keys are pressed with CapsLock off
CommandKeyDown ==
  \E combo \in TraversalKeys \cup JumpKeys \cup BulkTabKeys :
    SetState(DispatchKeydown(Entry(FALSE), combo, FALSE))

NextSparse ==
  \/ StartupCallback
  \/ CommandKeyDown
  \/ PageHidesAnyWay
  \/ PageShowsAgain
  \/ PageRemoves
  \/ PageAdds
  \/ PageRemovesSkipLinks

SpecSparse == InitSparse /\ [][NextSparse]_vars

\* SpecPopup: the content script in the active tab, the popup and the
\* storage; every interleaving of the storage callbacks and the messages.
InitPopup == InitOn(PageElements) /\ \E stored \in InstalledValues : ExtensionInit(stored)

NextPopup ==
  \/ PopupLoadCallback
  \/ PopupClick
  \/ PopupGetCallback
  \/ PopupSetCallback
  \/ PopupTabsQueryCallback
  \/ ToggleMessageDelivered
  \/ ToggleMessageLost
  \/ StartupRead
  \/ StartupCallbackOfRead

SpecPopup == InitPopup /\ [][NextPopup]_vars

\* SpecBackground: the worker, the storage, and the popup changing the
\* stored value; the storage calls every pending callback of the worker.
NextBackground ==
  \/ PopupClick
  \/ PopupGetCallback
  \/ PopupSetCallback
  \/ BackgroundOnMessage
  \/ BackgroundGetCallback
  \/ OnInstalled

SpecBackground ==
  InitPopup /\ [][NextBackground]_vars /\ WF_vars(BackgroundGetCallback)

\* SpecDebug: the stored preferences at startup, arbitrary values included,
\* and the debug switch of the help dialog.
InitDebug ==
  /\ \E debugMode \in StoredValues : InitStored(PageElements, <<>>, debugMode)
  /\ ExtensionInit("true")

DialogKeyDown == KeyDownOf(DialogKeys)

NextDebug ==
  \/ StartupCallbackOfStorage
  \/ FocusCheckTimerFires
  \/ CloseButtonClick
  \/ DebugSwitchClick
  \/ UserFocus
  \/ DialogKeyDown

SpecDebug == InitDebug /\ [][NextDebug]_vars

(***************************************************************************)
(* Properties.                                                             *)
(***************************************************************************)
\* Op applied n times
RECURSIVE Times(_, _, _)
Times(Op(_), n, s) == IF n = 0 THEN s ELSE Times(Op, n - 1, Op(s))

\* the dispatch guard as the documentation states it
GuardCondition(target, capsLock) ==
  \/ TagName(target) \in {"INPUT", "TEXTAREA", "SELECT"}
  \/ IsContentEditable(target)
  \/ RoleAttr(target) \in {"textbox", "searchbox", "combobox", "listbox", "tree", "grid"}
  \/ capsLock

\* n next (previous) navigations over an unchanged list of length n lead
\* the cursor back to where it started
CyclicHeadings(s) ==
  LET n == Len(getAllHeadings(s)) IN
  /\ Times(navigateToNextHeading, n, s).currentHeadingIndex = s.currentHeadingIndex
  /\ Times(navigateToPreviousHeading, n, s).currentHeadingIndex = s.currentHeadingIndex

CyclicLandmarks(s) ==
  LET n == Len(getAllLandmarks(s)) IN
  /\ Times(navigateToNextLandmark, n, s).currentLandmarkIndex = s.currentLandmarkIndex
  /\ Times(navigateToPreviousLandmark, n, s).currentLandmarkIndex = s.currentLandmarkIndex

\* C1 as stated: from every reachable cursor value, the no-selection value
\* -1 included, n next navigations and n previous navigations over an
\* unchanged non-empty list of length n return the cursor to its start.
C1_CyclicFromEveryCursor ==
  LET s == State(FALSE) IN
  keyListener =>
    /\ Len(getAllHeadings(s)) > 0 => CyclicHeadings(s)
    /\ Len(getAllLandmarks(s)) > 0 => CyclicLandmarks(s)

\* C1 amended: from every cursor inside the list, 0 <= cursor < n, n next
\* navigations and n previous navigations over the unchanged list of length
\* n return the cursor to its start.
C1_CyclicFromPositioned ==
  LET s == State(FALSE) IN
  /\ currentHeadingIndex \in 0..(Len(getAllHeadings(s)) - 1) => CyclicHeadings(s)
  /\ currentLandmarkIndex \in 0..(Len(getAllLandmarks(s)) - 1) => CyclicLandmarks(s)

\* the cursors are inside their lists, on the last heading and on a middle
\* landmark, and three next navigations take the heading cursor round
C1_Witness ==
  LET s == State(FALSE) IN
  /\ keyListener /\ ~helpDialogOpen
  /\ Len(getAllHeadings(s)) = 3 /\ Len(getAllLandmarks(s)) = 3
  /\ currentHeadingIndex = 2 /\ activeElement = "h_b"
  /\ currentLandmarkIndex = 1
  /\ navigateToNextHeading(s).currentHeadingIndex = 0
  /\ Times(navigateToNextHeading, 3, s).currentHeadingIndex = 2
  /\ Times(navigateToPreviousLandmark, 3, s).currentLandmarkIndex = 1

\* the host page shows Title, A, B, nothing is selected and the focused
\* element is no guarded target
C2_ScenarioStart ==
  /\ keyListener
  /\ currentHeadingIndex = -1
  /\ getAllHeadings(State(FALSE)) = <<"h_title", "h_a", "h_b">>
  /\ ~GuardCondition(activeElement, FALSE)

\* C2: on the page with headings Title, A, B, pressing h from the initial
\* cursor focuses Title, then A, then B, then Title again.
C2_HeadingCycle ==
  C2_ScenarioStart =>
    LET s1 == DispatchKeydown(State(FALSE), <<"h", "">>, FALSE)
        s2 == DispatchKeydown(s1, <<"h", "">>, FALSE)
        s3 == DispatchKeydown(s2, <<"h", "">>, FALSE)
        s4 == DispatchKeydown(s3, <<"h", "">>, FALSE)
    IN /\ s1.activeElement = "h_title"
       /\ s2.activeElement = "h_a"
       /\ s3.activeElement = "h_b"
       /\ s4.activeElement = "h_title"
       /\ s4.currentHeadingIndex = 0

\* the scenario's start with the focus on body, where the fourth press
\* brings the focus back to Title
C2_Witness ==
  /\ C2_ScenarioStart
  /\ activeElement = Body
  /\ skipLinksContainer
  /\ LET PressH(s) == DispatchKeydown(s, <<"h", "">>, FALSE)
     IN /\ Times(PressH, 3, State(FALSE)).activeElement = "h_b"
        /\ Times(PressH, 4, State(FALSE)).activeElement = "h_title"

\* a navigation from a cursor at or beyond the end of the fresh list ends
\* with the cursor inside the list and the element at the cursor focused
NormalizedBy(Navigate(_), s, list, cursorOf(_), cursor) ==
  (Len(list) > 0 /\ cursor >= Len(list)) =>
    LET r == Navigate(s) IN
    /\ cursorOf(r) \in 0..(Len(list) - 1)
    /\ r.activeElement = list[cursorOf(r) + 1]

HeadingCursorOf(s) == s.currentHeadingIndex
LandmarkCursorOf(s) == s.currentLandmarkIndex

\* C3: when the retained cursor is at or beyond the length n > 0 of the
\* freshly computed list, the next `next` or `prev` navigation leaves the
\* cursor in [0, n) and focuses the element at that index.
C3_OutOfRangeNormalized ==
  LET s == State(FALSE)
      headings == getAllHeadings(s)
      landmarks == getAllLandmarks(s)
  IN /\ NormalizedBy(navigateToNextHeading, s, headings, HeadingCursorOf, currentHeadingIndex)
     /\ NormalizedBy(navigateToPreviousHeading, s, headings, HeadingCursorOf, currentHeadingIndex)
     /\ NormalizedBy(navigateToNextLandmark, s, landmarks, LandmarkCursorOf, currentLandmarkIndex)
     /\ NormalizedBy(navigateToPreviousLandmark, s, landmarks, LandmarkCursorOf, currentLandmarkIndex)

\* the events of the model that may be dispatched in the current state
Escape == <<"Escape", "">>
HelpToggleKeys == {<<"/", "ctrl">>, <<"/", "meta">>}

\* the states the ways of closing the open dialog lead to: Escape, the
\* toggle hotkey, the close button, the focus-settle timer
ClosingOutcomes ==
  LET byKey == {DispatchKeydown(Entry(b), combo, capsLock) :
                  combo \in {Escape} \cup HelpToggleKeys,
                  capsLock \in BOOLEAN, b \in BOOLEAN}
      byButton == {closeHelpDialog(Focus(Entry(b), "dlg_close")) : b \in BOOLEAN}
      byTimer == IF focusCheckTimeout
                 THEN {FocusCheck([Entry(FALSE) EXCEPT !.focusCheckTimeout = FALSE])}
                 ELSE {}
  IN {r \in byKey \cup byButton \cup byTimer : ~r.helpDialogOpen}

\* C4: the element that held the focus when the dialog was opened, if still
\* in the document when the dialog is closed by any means, is the focused
\* element after the close.
C4_FocusRestored ==
  (helpDialogOpen /\ lastFocusedElement \in attached) =>
    \A r \in ClosingOutcomes : r.activeElement = lastFocusedElement

\* C5: while the dialog is open an Escape keydown closes it, in every
\* reachable state, also after a toggle message with enabled = false.
C5_EscapeAlwaysCloses ==
  helpDialogOpen =>
    \A capsLock \in BOOLEAN, b \in BOOLEAN :
      ~DispatchKeydown(Entry(b), Escape, capsLock).helpDialogOpen

\* C6: while the dialog is open and the focus is inside it, the focus is
\* inside the dialog after every Tab, traversal, jump and bulk-tab keydown.
C6_FocusStaysInDialog ==
  (helpDialogOpen /\ activeElement \in DialogElements) =>
    \A combo \in TabKeys \cup TraversalKeys \cup JumpKeys \cup BulkTabKeys :
      DispatchKeydown(Entry(FALSE), combo, FALSE).activeElement \in DialogElements

\* C7: openHelpDialog on an open dialog changes nothing, closeHelpDialog on
\* a closed dialog changes nothing.
C7_DialogIdempotent ==
  \A b \in BOOLEAN :
    /\ helpDialogOpen => openHelpDialog(State(b)) = State(b)
    /\ ~helpDialogOpen => closeHelpDialog(State(b)) = State(b)

\* the dialog is open, was opened from the input and the focus has moved
\* on inside it: a second open would capture another element
C7_Witness ==
  /\ helpDialogOpen /\ lastFocusedElement = "input" /\ activeElement = "dlg_debug"
  /\ openHelpDialog(State(FALSE)).lastFocusedElement = "input"
  /\ openHelpDialog(State(FALSE)).activeElement = "dlg_debug"

\* C8: with the listener registered, a keydown on an INPUT target changes
\* neither cursor and moves no focus by heading / landmark navigation, yet
\* Escape closes an open dialog and the platform's help toggle toggles it.
C8_InputTargetGuard ==
  (keyListener /\ TagName(activeElement) = "INPUT") =>
    \A combo \in KeyCombos, capsLock \in BOOLEAN, b \in BOOLEAN :
      LET r == DispatchKeydown(Entry(b), combo, capsLock) IN
      /\ r.currentHeadingIndex = currentHeadingIndex
      /\ r.currentLandmarkIndex = currentLandmarkIndex
      /\ combo \in TraversalKeys => r.activeElement = activeElement
      /\ (combo = Escape /\ helpDialogOpen) => ~r.helpDialogOpen
      /\ combo = (IF isMac THEN <<"/", "meta">> ELSE <<"/", "ctrl">>)
           => r.helpDialogOpen = ~helpDialogOpen

\* the input holds the focus while the dialog is open: h is ignored,
\* Escape closes the dialog
C8_Witness ==
  /\ keyListener /\ activeElement = "input" /\ helpDialogOpen
  /\ currentHeadingIndex = 1
  /\ DispatchKeydown(Entry(FALSE), <<"h", "">>, FALSE).currentHeadingIndex = 1
  /\ ~DispatchKeydown(Entry(FALSE), Escape, FALSE).helpDialogOpen

\* C9: a navigation, jump or bulk-tab keydown under the dispatch guard
\* (form control, content-editable or ARIA widget target, or CapsLock)
\* changes neither cursor, nor the focused element, nor any tabindex.
C9_DispatchGuard ==
  keyListener =>
    \A combo \in TraversalKeys \cup JumpKeys \cup BulkTabKeys, capsLock \in BOOLEAN :
      GuardCondition(activeElement, capsLock) =>
        LET r == DispatchKeydown(Entry(FALSE), combo, capsLock) IN
        /\ r.currentHeadingIndex = currentHeadingIndex
        /\ r.currentLandmarkIndex = currentLandmarkIndex
        /\ r.activeElement = activeElement
        /\ r.tabindex = tabindex
        /\ r.blurListeners = blurListeners

\* the listbox holds the focus with both cursors positioned, and l leaves
\* the focus and the landmark cursor where they are
C9_Witness ==
  /\ keyListener /\ activeElement = "listbox"
  /\ currentHeadingIndex = 1 /\ currentLandmarkIndex = 2
  /\ DispatchKeydown(Entry(FALSE), <<"l", "">>, FALSE).activeElement = "listbox"
  /\ DispatchKeydown(Entry(FALSE), <<"l", "">>, FALSE).currentLandmarkIndex = 2

\* C10: with the listener registered, under every guard condition the help
\* toggle keydown toggles the dialog and Escape closes an open dialog.
C10_ToggleAndEscapeBeforeGuard ==
  keyListener =>
    \A capsLock \in BOOLEAN, b \in BOOLEAN :
      GuardCondition(activeElement, capsLock) =>
        /\ DispatchKeydown(Entry(b), IF isMac THEN <<"/", "meta">> ELSE <<"/", "ctrl">>,
                           capsLock).helpDialogOpen = ~helpDialogOpen
        /\ helpDialogOpen => ~DispatchKeydown(Entry(b), Escape, capsLock).helpDialogOpen

\* the dialog was opened by the toggle from the content-editable element,
\* and with CapsLock on Escape closes it and returns the focus there
C10_Witness ==
  /\ keyListener /\ helpDialogOpen
  /\ lastFocusedElement = "editor" /\ activeElement = "dlg_close"
  /\ ~DispatchKeydown(Entry(FALSE), Escape, TRUE).helpDialogOpen
  /\ DispatchKeydown(Entry(FALSE), Escape, TRUE).activeElement = "editor"

\* C11: whenever the host page has a navigation landmark, Alt+Shift+N on a
\* non-guarded target moves the focus to a navigation landmark of the host
\* page, never to the skip-link container or into the help dialog.
C11_NavigationJumpOnHostPage ==
  (keyListener /\ "nav" \in attached /\ ~GuardCondition(activeElement, FALSE)) =>
    LET r == DispatchKeydown(Entry(FALSE), <<"N", "alt+shift">>, FALSE) IN
    /\ r.activeElement \in PageElements
    /\ TagName(r.activeElement) = "NAV" \/ RoleAttr(r.activeElement) = "navigation"

\* C14: after a toggle message is processed, the keydown listener is
\* registered and the skip-link container is in the page if and only if the
\* message's enabled was true; after enabled = false no keydown of a
\* shortcut changes anything.
C14_ToggleMessageSetsListenerAndSkipLinks ==
  \A enabled \in BOOLEAN :
    LET r == toggleMessageListener(Entry(FALSE), enabled) IN
    /\ r.isEnabled = enabled
    /\ r.keyListener = enabled
    /\ ("skip_links" \in r.attached) = enabled
    /\ ("skip_a" \in r.attached) = enabled
    /\ r.skipLinksContainer = enabled
    /\ ~enabled =>
         \A combo \in KeyCombos \ TabKeys, capsLock \in BOOLEAN :
           DispatchKeydown(r, combo, capsLock) = r

\* the skip link holds the focus with the dialog open: the disabling message
\* removes the listener and the skip links, and a later h moves nothing
C14_Witness ==
  /\ keyListener /\ activeElement = "skip_a" /\ helpDialogOpen
  /\ currentHeadingIndex = 0
  /\ LET r == toggleMessageListener(Entry(FALSE), FALSE)
     IN /\ ~r.keyListener /\ "skip_links" \notin r.attached
        /\ r.activeElement = Body
        /\ DispatchKeydown(r, <<"h", "">>, FALSE).currentHeadingIndex = 0

\* C20: when the focus-settle timer of the open dialog expires, the dialog
\* is closed if the focus is outside the dialog subtree, and stays open,
\* with the focus where it is, if the focus is inside it.
C20_FocusCheckClosesOnlyOutside ==
  (helpDialogOpen /\ focusCheckTimeout) =>
    LET r == FocusCheck([Entry(FALSE) EXCEPT !.focusCheckTimeout = FALSE]) IN
    IF activeElement \in DialogElements
    THEN r.helpDialogOpen /\ "dlg" \in r.attached /\ r.activeElement = activeElement
    ELSE ~r.helpDialogOpen /\ "dlg" \notin r.attached

\* the focus has moved inside the dialog (Tab wrapped from the last to the
\* first element) and the timer is pending: when it expires the dialog stays
\* open; had the focus been on the input outside, it would close
C20_Witness ==
  /\ helpDialogOpen /\ focusCheckTimeout /\ activeElement = firstFocusable
  /\ lastFocusedElement = "input"
  /\ FocusCheck([Entry(FALSE) EXCEPT !.focusCheckTimeout = FALSE]).helpDialogOpen
  /\ ~FocusCheck([Entry(FALSE) EXCEPT !.focusCheckTimeout = FALSE,
                                      !.activeElement = "input"]).helpDialogOpen

\* every click handler of the popup has run to its end
AllClicksDone == \A i \in 1..Len(popupClicks) : popupClicks[i].stage = "done"

\* C12: after k popup clicks have all completed, in any interleaving of
\* their storage callbacks, the persisted enabled value has been inverted k
\* times (the value before the first click is enabled: true or absent).
C12_EveryClickInverts ==
  AllClicksDone => ((storageEnabled # "false") = (Len(popupClicks) % 2 = 0))

\* C13: a click that read the state as enabled has stored enabled = false
\* when it completes, and a content script whose startup read returned false
\* has no keydown listener and no skip links unless it has processed a
\* toggle message with enabled = true.
C13_DisabledWriteKeepsScriptOff ==
  /\ \A i \in 1..Len(popupClicks) :
       (lastWrite = i /\ popupClicks[i].read \in {"true", "undefined"})
         => storageEnabled = "false"
  /\ (/\ startupRead = "false"
      /\ \A j \in 1..Len(processedClicks) : ~popupClicks[processedClicks[j]].newState)
       => /\ ~keyListener
          /\ ~skipLinksContainer
          /\ "skip_links" \notin attached

\* one click from enabled has completed, its message was lost, and the
\* script's startup read saw the write and its callback has run
C13_Witness ==
  /\ Len(popupClicks) = 1 /\ AllClicksDone /\ popupClicks[1].read = "true"
  /\ storageEnabled = "false"
  /\ toggleMessages = <<>> /\ processedClicks = <<>>
  /\ startupRead = "false" /\ ~startupPending
  /\ ~isEnabled /\ ~keyListener

\* C15: once the content script has processed the message of the most
\* recent popup write and its startup callback has run, isEnabled equals the
\* persisted value, in every ordering of the callback and the message.
C15_DivergenceIsTransient ==
  (/\ lastWrite # 0
   /\ \E j \in 1..Len(processedClicks) : processedClicks[j] = lastWrite
   /\ ~startupPending)
    => isEnabled = (storageEnabled # "false")

\* h1-h6 or role="heading"
IsHeadingElement(e) == TagName(e) \in HeadingTags \/ RoleAttr(e) = "heading"

\* shown to the user: rendered and outside every aria-hidden subtree
Perceivable(s, e) ==
  /\ e \in s.attached
  /\ IsRendered(s, e)
  /\ SelfAndAncestors(e) \cap s.ariaHidden = {}

Occurrences(seq, x) == Cardinality({i \in 1..Len(seq) : seq[i] = x})

\* C16: getAllHeadings returns only headings, in strict ascending document
\* (depth-first) order, and each visible heading exactly once, also for
\* nested headings and for elements matching both selectors.
C16_HeadingsInDocumentOrder ==
  LET s == State(FALSE)
      headings == getAllHeadings(s)
  IN /\ \A i, j \in 1..Len(headings) : i < j => Pos(headings[i]) < Pos(headings[j])
     /\ \A i \in 1..Len(headings) :
          IsHeadingElement(headings[i]) /\ headings[i] \in attached
     /\ \A e \in attached :
          (IsHeadingElement(e) /\ Perceivable(s, e)) => Occurrences(headings, e) = 1

\* nothing is hidden, the list holds the element with role heading before
\* the h3 with role heading nested in it, and the cursor is on the latter
C16_Witness ==
  /\ keyListener
  /\ getAllHeadings(State(FALSE)) = <<"h_title", "h_a", "h_b", "box", "h_both", "h_in">>
  /\ currentHeadingIndex = 4 /\ activeElement = "h_both"

\* C17: every heading getAllHeadings returns is rendered (neither it nor an
\* ancestor is display: none or visibility: hidden) and outside every
\* aria-hidden subtree, and so is every heading the h / Shift+H keys focus.
C17_HiddenHeadingsExcluded ==
  LET s == State(FALSE)
      headings == getAllHeadings(s)
  IN keyListener =>
     /\ \A i \in 1..Len(headings) : Perceivable(s, headings[i])
     /\ \A combo \in {<<"h", "">>, <<"H", "shift">>} :
            LET r == DispatchKeydown(Entry(FALSE), combo, FALSE) IN
            (r.activeElement # activeElement /\ IsHeadingElement(r.activeElement))
              => Perceivable(s, r.activeElement)

SectioningTags == {"HEADER", "FOOTER", "NAV", "MAIN", "ASIDE", "SECTION", "FORM"}

NestedInArticleOrSection(e) ==
  \E a \in SelfAndAncestors(e) \ {e} : TagName(a) \in {"ARTICLE", "SECTION"}

HasLandmarkRole(e) == \E i \in 1..Len(ariaLandmarkRoles) : RoleAttr(e) = ariaLandmarkRoles[i]

\* the elements the rule lists as landmarks: top-level header, footer, nav,
\* main, aside; labelled section and form; every explicit landmark role
ListedAsLandmark(e) ==
  \/ HasLandmarkRole(e)
  \/ TagName(e) \in {"HEADER", "FOOTER", "NAV", "MAIN", "ASIDE"} /\ ~NestedInArticleOrSection(e)
  \/ TagName(e) \in {"SECTION", "FORM"} /\ IsLabelled(e)

\* every listed landmark that is shown is in the list, and no element is in
\* the list twice
LandmarksIncluded(s, landmarks) ==
  /\ \A e \in s.attached :
       (ListedAsLandmark(e) /\ Perceivable(s, e)) => Occurrences(landmarks, e) = 1
  /\ \A i \in 1..Len(landmarks) : Occurrences(landmarks, landmarks[i]) = 1

\* C18 as stated: no sectioning element nested inside an article or section
\* and without explicit landmark role is in the list of getAllLandmarks;
\* the listed landmarks are in it when visible, each exactly once.
C18_NestedSectioningExcluded ==
  LET s == State(FALSE)
      landmarks == getAllLandmarks(s)
  IN keyListener =>
     /\ \A e \in attached :
          (TagName(e) \in SectioningTags /\ NestedInArticleOrSection(e) /\ ~HasLandmarkRole(e))
            => Occurrences(landmarks, e) = 0
     /\ LandmarksIncluded(s, landmarks)

\* C18 amended: no header or footer nested inside an article or section and
\* without explicit landmark role is in the list; a nav, main or aside is in
\* the list when visible wherever it is nested; the listed landmarks are in
\* it when visible, each exactly once.
C18_NestedHeaderFooterExcluded ==
  LET s == State(FALSE)
      landmarks == getAllLandmarks(s)
  IN /\ \A e \in attached :
          (TagName(e) \in {"HEADER", "FOOTER"} /\ NestedInArticleOrSection(e) /\ ~HasLandmarkRole(e))
            => Occurrences(landmarks, e) = 0
     /\ \A e \in attached :
          (TagName(e) \in {"NAV", "MAIN", "ASIDE"} /\ Perceivable(s, e))
            => Occurrences(landmarks, e) = 1
     /\ LandmarksIncluded(s, landmarks)

\* the article's header is left out, its nav and its footer with role
\* contentinfo are in the list, and l has moved the focus to the nested nav
C18_Witness ==
  LET landmarks == getAllLandmarks(State(FALSE)) IN
  /\ keyListener
  /\ {"article", "art_header", "art_nav", "art_footer", "header", "footer"} \subseteq attached
  /\ landmarks = <<"skip_links", "nav", "main", "header", "art_nav", "art_footer",
                   "sec", "aside", "form", "footer">>
  /\ currentLandmarkIndex = 4 /\ activeElement = "art_nav"

\* C19: on a page that hides nothing, after every sequence of next / prev
\* navigations an element with a tabindex of its own keeps it, an element
\* without one has tabindex -1 while it holds the focus it was navigated to
\* and no tabindex once it has lost the focus; navigating to the focused
\* element again changes nothing of this.
C19_TemporaryTabIndex ==
  (displayNone = {} /\ hidden = {}) =>
    LET s == State(FALSE) IN
    /\ \A e \in attached :
         IF PageTabIndex(e) # "none"
         THEN tabindex[e] = PageTabIndex(e) /\ blurListeners[e] = <<>>
         ELSE IF e = activeElement
         THEN tabindex[e] = "-1" /\ Blur(s).tabindex[e] = "none"
         ELSE tabindex[e] = "none" /\ blurListeners[e] = <<>>
    /\ activeElement # Body =>
         LET again == makeElementFocusableAndFocus(s, activeElement) IN
         /\ again.tabindex = tabindex
         /\ Blur(again).tabindex = [e \in Elements |-> PageTabIndex(e)]
         /\ Blur(again).blurListeners = [e \in Elements |-> <<>>]

\* the focus has passed over h_b, which has lost its temporary tabindex, to
\* the nested heading that has tabindex 0 of its own
C19_Witness ==
  /\ displayNone = {} /\ hidden = {}
  /\ keyListener /\ currentHeadingIndex = 4 /\ activeElement = "h_both"
  /\ tabindex["h_both"] = "0" /\ tabindex["h_b"] = "none"
  /\ navigateToNextHeading(State(FALSE)).tabindex["h_in"] = "-1"

\* C21: closing the dialog removes its subtree, and when the captured
\* element is null or no longer in the document, the focus ends on the skip
\* link if the skip-link container exists and on the body otherwise.
C21_CloseFallsBackToSkipLinkOrBody ==
  (helpDialogOpen /\ lastFocusedElement \in {Null, Detached}) =>
    \A r \in ClosingOutcomes :
      /\ DialogElements \cap r.attached = {}
      /\ r.activeElement = IF "skip_links" \in r.attached THEN "skip_a" ELSE Body

\* the toggle messages of a click that are in flight or were processed
MessagesOf(i) ==
  Cardinality({j \in 1..Len(toggleMessages) : toggleMessages[j].click = i})
    + Cardinality({j \in 1..Len(processedClicks) : processedClicks[j] = i})

\* C22: whether the toggle message is delivered, fails or is not sent for
\* want of an active tab id, the click whose write is the latest leaves the
\* storage holding its new value and the button showing it, and no click
\* ever sends more than one toggle message.
C22_FailedDeliveryKeepsStateAndNeverResends ==
  \A i \in 1..Len(popupClicks) :
    /\ popupClicks[i].sent <= 1
    /\ MessagesOf(i) <= popupClicks[i].sent
    /\ (popupClicks[i].stage \in {"query", "done"} /\ lastWrite = i) =>
         /\ storageEnabled = Stored(popupClicks[i].newState)
         /\ ariaPressed = updateButtonState(popupClicks[i].newState)

\* two clicks have completed: the message of the first was sent and lost,
\* the second found no active tab id; storage and button hold the value of
\* the second, and the content script never heard of either
C22_Witness ==
  /\ Len(popupClicks) = 2 /\ AllClicksDone
  /\ popupClicks[1].sent = 1 /\ popupClicks[2].sent = 0
  /\ toggleMessages = <<>> /\ processedClicks = <<>>
  /\ lastWrite = 2 /\ popupClicks[2].newState
  /\ storageEnabled = "true" /\ ariaPressed = "true"
  /\ keyListener

\* every request is in a stage the worker's listener leaves it in: a
\* getState request is waiting for the storage or has its one response,
\* whose enabled is false if and only if the value read was exactly false;
\* any other request has its channel closed, no storage read and no response
RequestsWellAnswered ==
  \A i \in 1..Len(requests) :
    LET r == requests[i] IN
    IF r.action = "getState"
    THEN \/ r.stage = "get" /\ r.responses = <<>>
         \/ /\ r.stage = "answered"
            /\ Len(r.responses) = 1
            /\ DOMAIN r.responses[1] = {"enabled"}
            /\ (r.responses[1].enabled = FALSE) <=> (r.read = "false")
    ELSE r.stage = "closed" /\ r.read = "pending" /\ r.responses = <<>>

\* C23: the worker answers every getState request with exactly one response
\* { enabled }, enabled being false if and only if the stored value is
\* exactly false; a message with another action gets no response and changes
\* nothing.
C23_GetStateAnsweredOnce ==
  /\ []RequestsWellAnswered
  /\ [][BackgroundOnMessage => storageEnabled' = storageEnabled]_vars
  /\ \A i \in 1..MaxRequests :
       (Len(requests) >= i /\ requests[i].action = "getState")
         ~> (Len(requests) >= i /\ requests[i].stage = "answered")

\* a getState sent before any click was answered with enabled true from the
\* absent key, and one sent after a click was answered with enabled false
C23_Witness ==
  /\ Len(requests) = 2
  /\ requests[1].action = "getState" /\ requests[1].read = "undefined"
  /\ requests[1].responses = <<[enabled |-> TRUE]>>
  /\ requests[2].action = "getState" /\ requests[2].read = "false"
  /\ requests[2].responses = <<[enabled |-> FALSE]>>

\* a navigation leaves the cursor at expected and the focus on the element
\* of the list at that index
StepsTo(Navigate(_), s, list, cursorOf(_), expected) ==
  LET r == Navigate(s) IN
  /\ cursorOf(r) = expected
  /\ r.activeElement = list[expected + 1]

\* C24: on a non-empty list of length n with the cursor c in -1..n-1, next
\* sets the cursor to (c+1) mod n and prev sets it to n-1 if c <= 0 and to
\* c-1 otherwise, and afterwards the focused element is the element of the
\* list at the new cursor.
C24_TraversalTransitions ==
  LET s == State(FALSE)
      headings == getAllHeadings(s)
      landmarks == getAllLandmarks(s)
      n == Len(headings)
      m == Len(landmarks)
      c == currentHeadingIndex
      d == currentLandmarkIndex
  IN keyListener =>
     /\ (n > 0 /\ c \in -1..(n - 1)) =>
          /\ StepsTo(navigateToNextHeading, s, headings, HeadingCursorOf, (c + 1) % n)
          /\ StepsTo(navigateToPreviousHeading, s, headings, HeadingCursorOf,
                     IF c <= 0 THEN n - 1 ELSE c - 1)
     /\ (m > 0 /\ d \in -1..(m - 1)) =>
          /\ StepsTo(navigateToNextLandmark, s, landmarks, LandmarkCursorOf, (d + 1) % m)
          /\ StepsTo(navigateToPreviousLandmark, s, landmarks, LandmarkCursorOf,
                     IF d <= 0 THEN m - 1 ELSE d - 1)

\* the navigation changes nothing: cursors, focus, tabindex attributes,
\* pending listeners, no error
NoOp(Navigate(_), s) == Navigate(s) = s

\* C25: when the freshly computed heading (landmark) list is empty, next
\* and prev change neither the cursor, nor the focused element, nor any
\* tabindex attribute.
C25_EmptyListNoOp ==
  LET s == Entry(FALSE) IN
  /\ Len(getAllHeadings(s)) = 0 =>
       /\ NoOp(navigateToNextHeading, s) /\ NoOp(navigateToPreviousHeading, s)
       /\ keyListener => \A combo \in {<<"h", "">>, <<"H", "shift">>} :
                           DispatchKeydown(s, combo, FALSE) = s
  /\ Len(getAllLandmarks(s)) = 0 =>
       /\ NoOp(navigateToNextLandmark, s) /\ NoOp(navigateToPreviousLandmark, s)
       /\ keyListener => \A combo \in {<<"l", "">>, <<"L", "shift">>} :
                           DispatchKeydown(s, combo, FALSE) = s

\* the page has hidden its only heading and dropped the skip links after
\* both cursors were positioned: both lists are empty, and h and l leave
\* the cursors where they are
C25_Witness ==
  LET s == Entry(FALSE) IN
  /\ keyListener /\ attached = {"h_a", "input"} /\ hidden = {"h_a"}
  /\ activeElement = Body
  /\ currentHeadingIndex = 0 /\ currentLandmarkIndex = 0
  /\ getAllHeadings(s) = <<>> /\ getAllLandmarks(s) = <<>>
  /\ navigateToNextHeading(s).currentHeadingIndex = 0
  /\ navigateToPreviousLandmark(s).currentLandmarkIndex = 0

\* the command has focused an element, or had a list and a cursor to move on
Acted(r, list, cursor) ==
  \/ r.activeElement # activeElement
  \/ Len(list) > 0 /\ cursor \in -1..(Len(list) - 1)

NoMatch(s, matching) == s.attached \cap matching = {}

\* no element of the document is in bulk-tab's list: none matches the
\* focusable selector, is displayed, visible and has an offsetParent
NoVisibleFocusable(s) ==
  \A e \in s.attached :
    \/ TagName(e) \notin {"A", "BUTTON", "INPUT", "SELECT", "TEXTAREA"}
         /\ s.tabindex[e] \in {"none", "-1"}
    \/ e \in s.displayNone
    \/ ComputedVisibility(s, e) = "hidden"
    \/ OffsetParentIsNull(s, e)

\* C27: Alt+Shift+H with no h1, Alt+Shift+M with no main or role="main",
\* Alt+Shift+N with no nav or role="navigation", and bulk-tab with no visible
\* focusable element leave the focused element, both cursors and every
\* tabindex attribute as they are and raise no error.
C27_MissingTargetsNoOp ==
  LET s == Entry(FALSE)
      Press(combo) == DispatchKeydown(s, combo, FALSE)
  IN keyListener =>
     /\ NoMatch(s, WithTag["H1"]) =>
          Press(<<"H", "alt+shift">>) = s /\ focusMainHeading(s) = s
     /\ NoMatch(s, WithTag["MAIN"] \cup WithRole["main"]) =>
          Press(<<"M", "alt+shift">>) = s /\ focusMainContent(s) = s
     /\ NoMatch(s, WithTag["NAV"] \cup WithRole["navigation"]) =>
          Press(<<"N", "alt+shift">>) = s /\ focusNavigation(s) = s
     /\ NoVisibleFocusable(s) =>
          /\ Press(<<"%", "alt+shift">>) = s /\ Press(<<")", "alt+shift">>) = s
          /\ tabMultipleTimes(s, 5) = s /\ tabMultipleTimes(s, 10) = s

\* the focus is on the heading A, which carries its temporary tabindex; the
\* page has since removed its input and dropped the skip links: there is no
\* h1, no main, no navigation and nothing for bulk-tab, and Alt+Shift+H
\* leaves the focus on A
C27_Witness ==
  LET s == Entry(FALSE) IN
  /\ keyListener /\ attached = {"h_a"} /\ activeElement = "h_a"
  /\ currentHeadingIndex = 0 /\ tabindex["h_a"] = "-1"
  /\ NoMatch(s, WithTag["H1"]) /\ NoMatch(s, WithTag["MAIN"] \cup WithRole["main"])
  /\ NoMatch(s, WithTag["NAV"] \cup WithRole["navigation"]) /\ NoVisibleFocusable(s)
  /\ DispatchKeydown(s, <<"H", "alt+shift">>, FALSE).activeElement = "h_a"

\* C28: on a page that does not change, after every sequence of
\* Alt+Shift+H / M / N presses and heading / landmark navigations, every
\* element of the host page that does not hold the focus has the tabindex
\* attribute of the page's markup (none if the markup has none).
C28_JumpRestoresTabIndex ==
  pageChanges = 0 =>
    \A e \in attached \cap PageElements :
      e # activeElement => tabindex[e] = PageTabIndex(e)

\* the list bulk-tab works on: the elements matching the focusable selector
\* that are displayed, visible and have an offsetParent, in document order
VisibleFocusable(s) ==
  SelectSeq(DocOrder, LAMBDA e :
    /\ e \in s.attached
    /\ TagName(e) \in {"A", "BUTTON", "INPUT", "SELECT", "TEXTAREA"}
         \/ s.tabindex[e] \notin {"none", "-1"}
    /\ e \notin s.displayNone
    /\ ComputedVisibility(s, e) # "hidden"
    /\ ~OffsetParentIsNull(s, e))

\* k single forward steps over a list of length len with wrap-around, from
\* index (-1: before the first element)
RECURSIVE StepsForward(_, _, _)
StepsForward(len, index, k) ==
  IF k = 0 THEN index ELSE StepsForward(len, (index + 1) % len, k - 1)

\* C29: bulk-tab by k = 5 or 10 moves the focus where k single forward
\* steps with wrap-around over the list of visible focusable elements lead:
\* from index i to (i+k) mod len, and, when no listed element is focused,
\* to where k steps from before the first element lead.
C29_BulkTabIsKSteps ==
  LET s == Entry(FALSE)
      list == VisibleFocusable(s)
      i == IndexOf(list, activeElement)
  IN (keyListener /\ Len(list) > 0 /\ ~GuardCondition(activeElement, FALSE)) =>
       /\ DispatchKeydown(s, <<"%", "alt+shift">>, FALSE).activeElement
            = list[StepsForward(Len(list), i, 5) + 1]
       /\ DispatchKeydown(s, <<")", "alt+shift">>, FALSE).activeElement
            = list[StepsForward(Len(list), i, 10) + 1]

\* C30: while the dialog is open, Tab with the focus on the dialog's last
\* focusable element moves the focus to its first focusable element and
\* Shift+Tab on the first moves it to the last; Tab and Shift+Tab on any
\* other element of the dialog are left to the browser's default handling.
C30_FocusTrapWraps ==
  (helpDialogOpen /\ activeElement \in DialogElements) =>
    \A combo \in TabKeys, capsLock \in BOOLEAN :
      LET s == Entry(FALSE)
          event == KeyboardEvent(combo, capsLock, activeElement)
          r == DispatchKeydown(s, combo, capsLock)
      IN IF ~event.shiftKey /\ activeElement = lastFocusable
         THEN r.activeElement = firstFocusable /\ r.defaultPrevented
         ELSE IF event.shiftKey /\ activeElement = firstFocusable
         THEN r.activeElement = lastFocusable /\ r.defaultPrevented
         ELSE ~r.defaultPrevented /\ r = DefaultTab(s, event)

\* the dialog was opened from the heading A and Tab has moved the focus to
\* its last focusable element: another Tab wraps to the close button, while
\* Shift+Tab is left to the browser and also reaches the close button
C30_Witness ==
  /\ helpDialogOpen /\ lastFocusedElement = "h_a" /\ activeElement = lastFocusable
  /\ firstFocusable = "dlg_close" /\ lastFocusable = "dlg_debug"
  /\ DispatchKeydown(Entry(FALSE), <<"Tab", "">>, FALSE).activeElement = "dlg_close"
  /\ DispatchKeydown(Entry(FALSE), <<"Tab", "">>, FALSE).defaultPrevented
  /\ ~DispatchKeydown(Entry(FALSE), <<"Tab", "shift">>, FALSE).defaultPrevented

\* the help toggle of the platform
HelpToggle == IF isMac THEN <<"/", "meta">> ELSE <<"/", "ctrl">>

\* C31: opening from the closed state captures the focused element, appends
\* the one dialog subtree, focuses the dialog's close button and sets the
\* open flag; the toggle hotkey opens when closed and closes when open, and
\* two toggles in a row from the closed state end in the closed state.
C31_OpenTransitionAndToggle ==
  keyListener =>
    \A capsLock \in BOOLEAN, b \in BOOLEAN :
      LET s == Entry(b)
          opened == openHelpDialog(s)
          once == DispatchKeydown(s, HelpToggle, capsLock)
          twice == DispatchKeydown(once, HelpToggle, capsLock)
      IN IF helpDialogOpen
         THEN ~once.helpDialogOpen /\ DialogElements \cap once.attached = {}
         ELSE /\ DialogElements \cap attached = {}
              /\ opened.lastFocusedElement = activeElement
              /\ DialogElements \subseteq opened.attached
              /\ opened.attached \ DialogElements = attached
              /\ opened.activeElement = "dlg_close"
              /\ opened.helpDialogOpen /\ opened.helpDialogElement
              /\ once = opened
              /\ ~twice.helpDialogOpen /\ DialogElements \cap twice.attached = {}

\* the dialog is closed and the input holds the focus: the toggle
\* captures it and focuses the close button, a second toggle closes the
\* dialog and returns the focus to it
C31_Witness ==
  LET once == DispatchKeydown(Entry(FALSE), HelpToggle, FALSE)
      twice == DispatchKeydown(once, HelpToggle, FALSE)
  IN /\ keyListener /\ ~helpDialogOpen /\ activeElement = "input"
     /\ once.helpDialogOpen /\ once.lastFocusedElement = "input"
     /\ once.activeElement = "dlg_close"
     /\ ~twice.helpDialogOpen /\ twice.activeElement = "input"

\* C32: at every event boundary the open flag, the dialog reference and the
\* attachment of the dialog subtree agree; opening appends a subtree only
\* when none is attached, so the page never holds two; and while the dialog
\* is closed the captured previously-focused element is null.
C32_DialogSessionInvariant ==
  /\ helpDialogOpen <=> (helpDialogElement /\ "dlg" \in attached)
  /\ helpDialogOpen = helpDialogElement
  /\ IF helpDialogOpen THEN DialogElements \subseteq attached
                       ELSE DialogElements \cap attached = {}
  /\ \A b \in BOOLEAN :
       openHelpDialog(Entry(b)) # Entry(b) => DialogElements \cap attached = {}
  /\ ~helpDialogOpen => lastFocusedElement = Null

\* a dialog was opened and closed again with its settle timer still
\* pending: nothing of it is left and the capture is null, with the focus on
\* the input
C32_Witness ==
  /\ ~helpDialogOpen /\ ~helpDialogElement /\ lastFocusedElement = Null
  /\ activeElement = "input" /\ staleTimeouts > 0

\* C33: in every state the install event can fire in, whatever is stored (a
\* false written by the user's click included), the value the install
\* handler leaves in storage is true.
C33_InstallSetsEnabledTrue ==
  /\ storageEnabled \in {"undefined", "true", "false"}
  /\ installedValue(storageEnabled) = "true"

\* the user's click has stored false and the install handler overwrites it
C33_Witness ==
  /\ storageEnabled = "false" /\ lastWrite > 0
  /\ installedValue(storageEnabled) = "true"

\* the load-time read and every click's read and write have called back
PopupStorageCallbacksDone ==
  /\ ~loadPending
  /\ \A i \in 1..Len(popupClicks) : popupClicks[i].stage \notin {"get", "set"}

\* C34: once the popup's load-time read and every click's read and write
\* have called back, in whatever order they completed, the button's
\* aria-pressed (set together with its label by updateButtonState) shows
\* the stored enabled value, an absent value counting as true.
C34_PopupShowsStoredValue ==
  PopupStorageCallbacksDone =>
    ariaPressed = (IF storageEnabled # "false" THEN "true" ELSE "false")

\* two clicks raced (both read the value as enabled and both stored false),
\* the load-time read has called back, and the button shows false
C34_Witness ==
  /\ PopupStorageCallbacksDone /\ Len(popupClicks) = 2
  /\ popupClicks[1].read = popupClicks[2].read
  /\ storageEnabled = "false" /\ ariaPressed = "false"

\* C35: the startup callback leaves isEnabled false exactly for a stored
\* enabled of false and DEBUG_FOCUS true exactly for a stored debugMode of
\* true; a click on the dialog's debug switch inverts DEBUG_FOCUS and stores
\* the new value as debugMode.
C35_PreferenceDefaults ==
  /\ startupPending =>
       \A enabled \in StoredValues :
         LET r == storageGetCallback(Entry(FALSE), enabled, storageDebugMode)
         IN /\ ~r.isEnabled <=> enabled = "false"
            /\ r.DEBUG_FOCUS <=> storageDebugMode = "true"
            /\ r.storageDebugMode = storageDebugMode
  /\ "dlg_debug" \in attached =>
       LET r == debugToggleClick(Focus(Entry(FALSE), "dlg_debug"))
       IN /\ r.DEBUG_FOCUS = ~DEBUG_FOCUS
          /\ r.storageDebugMode = (IF r.DEBUG_FOCUS THEN "true" ELSE "false")

\* the script has started, the flag is on and the dialog is open: a click on
\* the switch turns the flag off and stores false
C35_Witness ==
  LET r == debugToggleClick(Focus(Entry(FALSE), "dlg_debug"))
  IN /\ ~startupPending /\ helpDialogOpen /\ DEBUG_FOCUS
     /\ storageDebugMode = "true"
     /\ ~r.DEBUG_FOCUS /\ r.storageDebugMode = "false"

\* C36: once the startup callback has run, the keydown listener is
\* registered exactly when isEnabled is true, in every ordering of the
\* startup callback and the toggle messages.
C36_ListenerIffEnabled ==
  ~startupPending => (keyListener <=> isEnabled)

\* C37: after a toggle message with enabled = false has been processed no
\* injected element is left in the page: the skip links are removed and no
\* part of the help dialog stays attached, also when the dialog was open
\* when the message arrived.
C37_DisableRemovesArtifacts ==
  ~startupPending =>
    LET r == toggleMessageListener(Entry(FALSE), FALSE)
    IN /\ SkipElements \cap r.attached = {}
       /\ DialogElements \cap r.attached = {}

\* C38: the lists of getAllHeadings and getAllLandmarks hold only elements
\* of the host page, never the injected skip links or the help dialog's own
\* headings.
C38_ListsHoldOnlyPageElements ==
  \A b \in BOOLEAN :
    /\ \A i \in 1..Len(getAllHeadings(Entry(b))) :
         getAllHeadings(Entry(b))[i] \notin SkipElements \cup DialogElements
    /\ \A i \in 1..Len(getAllLandmarks(Entry(b))) :
         getAllLandmarks(Entry(b))[i] \notin SkipElements \cup DialogElements

\* the keys of the heading traversal and of the landmark traversal
HeadingKeys == {<<"h", "">>, <<"H", "shift">>}
LandmarkKeys == {<<"l", "">>, <<"L", "shift">>}

\* C39: heading navigation leaves the landmark cursor unchanged, landmark
\* navigation leaves the heading cursor unchanged, and the jump commands,
\* bulk-tab, opening and closing the dialog and the enable and disable
\* toggle messages leave both cursors unchanged.
C39_CursorsIndependent ==
  \A b \in RemovalBehaviours :
    LET s == Entry(b)
        Same(r, heading, landmark) ==
          /\ heading => r.currentHeadingIndex = currentHeadingIndex
          /\ landmark => r.currentLandmarkIndex = currentLandmarkIndex
    IN /\ Same(navigateToNextHeading(s), FALSE, TRUE)
       /\ Same(navigateToPreviousHeading(s), FALSE, TRUE)
       /\ Same(navigateToNextLandmark(s), TRUE, FALSE)
       /\ Same(navigateToPreviousLandmark(s), TRUE, FALSE)
       /\ Same(focusMainHeading(s), TRUE, TRUE)
       /\ Same(focusMainContent(s), TRUE, TRUE)
       /\ Same(focusNavigation(s), TRUE, TRUE)
       /\ \A combo \in BulkTabKeys :
            Same(DispatchKeydown(s, combo, FALSE), TRUE, TRUE)
       /\ Same(toggleHelpDialog(s), TRUE, TRUE)
       /\ Same(closeHelpDialog(s), TRUE, TRUE)
       /\ \A enabled \in BOOLEAN :
            Same(toggleMessageListener(s, enabled), TRUE, TRUE)

\* both traversals have advanced and the extension has been disabled by a
\* toggle message since: both cursors are where the traversals left them
C39_Witness ==
  /\ ~startupPending /\ ~isEnabled /\ ~keyListener
  /\ currentHeadingIndex > 0 /\ currentLandmarkIndex > 0
  /\ currentHeadingIndex # currentLandmarkIndex
  /\ toggleMessageListener(Entry(FALSE), TRUE).currentHeadingIndex = currentHeadingIndex
  /\ toggleMessageListener(Entry(FALSE), TRUE).currentLandmarkIndex = currentLandmarkIndex

\* the states in which an expiring focus-settle timer runs its body: the
\* open dialog's timer, or one left pending by a dialog closed earlier
AtExpiry ==
  (IF focusCheckTimeout THEN {[Entry(FALSE) EXCEPT !.focusCheckTimeout = FALSE]} ELSE {})
  \cup (IF staleTimeouts > 0 THEN {[Entry(FALSE) EXCEPT !.staleTimeouts = @ - 1]} ELSE {})

\* C40: a focus-settle timer, also one left pending by a dialog that has
\* been closed since, changes nothing when no dialog is open or when the
\* focus is inside the open dialog: an expiry closes the dialog only if the
\* dialog is open and the focus is outside it at that moment.
C40_StaleTimerIsHarmless ==
  \A s \in AtExpiry :
    LET r == FocusCheck(s)
    IN /\ ~helpDialogOpen => r = s
       /\ (helpDialogOpen /\ activeElement \in DialogElements) => r = s
       /\ r # s => /\ helpDialogOpen /\ activeElement \notin DialogElements
                   /\ ~r.helpDialogOpen

\* a dialog was closed with its timer pending and another was opened: the
\* old timer expires while the focus is on the new dialog's close button
C40_Witness ==
  /\ staleTimeouts > 0 /\ ~focusCheckTimeout
  /\ helpDialogOpen /\ activeElement = "dlg_close"
  /\ FocusCheck([Entry(FALSE) EXCEPT !.staleTimeouts = @ - 1]).helpDialogOpen

====
